---------------------------- MODULE Spec2Model ----------------------------
(***************************************************************************)
(* Legato signal events (framework/c/src/signals.c).                       *)
(*                                                                         *)
(* Every thread may own one monitor object (MonitorObj_t) that it finds    *)
(* through the thread-local key SigMonKey.  The monitor object holds the   *)
(* list of handler objects, the signalfd and the fd monitor reference.     *)
(* le_sig_SetEventHandler, le_sig_Block and le_sig_DeleteAll are the       *)
(* public operations; OurSigHandler is the fd-monitor callback that drains *)
(* the signalfd and routes every record to the handler of its signal.      *)
(*                                                                         *)
(* The kernel (thread signal masks, pending signals, the descriptor table  *)
(* with the signalfd masks) and the two collaborators (memory pools, fd    *)
(* monitors) are modelled by what signals.c asks of them.                  *)
(***************************************************************************)
EXTENDS Integers, Sequences, FiniteSets, TLC

(***************************************************************************)
(* Signal numbers (Linux numbering) of the signals signals.c names, and of *)
(* the two user signals the model raises.                                  *)
(***************************************************************************)
SIGILL == 4
SIGTRAP == 5
SIGABRT == 6
SIGIOT == SIGABRT
SIGBUS == 7
SIGFPE == 8
SIGKILL == 9
SIGUSR1 == 10
SIGSEGV == 11
SIGUSR2 == 12
SIGTERM == 15
SIGSTOP == 19
SIGSYS == 31

\* The reserved set as the specification states it: kill and stop together
\* with the FatalSignalSet (segv, ill, bus, fpe, abort, trap).
FatalSignalSet == {SIGSEGV, SIGILL, SIGBUS, SIGFPE, SIGABRT, SIGTRAP}
ReservedSet == {SIGKILL, SIGSTOP} \cup FatalSignalSet

\* Signals a caller may ask a handler for, and the ones the model raises.
UserSigs == {SIGUSR1, SIGUSR2}
Sigs == ReservedSet \cup {SIGSYS} \cup UserSigs

\* Null pointer / null reference, and the invalid descriptor.
NULL == 0
NOFD == -1

\* Callbacks a caller may register (le_sig_EventHandlerFunc_t values).
Handlers == {"F1", "F2"}

(***************************************************************************)
(* Bounds of the model.                                                    *)
(***************************************************************************)
\* Number of signals the kernel queues in one behaviour.
MaxRaise == 2
\* Number of handler objects the handler pool hands out in one behaviour.
MaxHandlerObjs == 2

\* Threads of the process; thread 1 is the process leader (tid = pid).
Threads == {1, 2}
\* Blocks of the monitor object pool, descriptors and fd monitor references:
\* a thread creates each at most once (SigMonKey is never reset).
MonIds == 1 .. Cardinality(Threads)
Fds == 1 .. Cardinality(Threads)
Refs == 1 .. Cardinality(Threads)

VARIABLES
    proc,            \* "running", "fatal" (LE_FATAL / LE_ASSERT), "killed" (default disposition)
    diag,            \* how the process ended: [msg, sig] (the diagnostic of the fatal
                     \* error, or the signal that killed the process), or NoDiag
    SigMonKey,       \* thread -> monitor object pointer (NULL or a block of MonitorObjPool)
    MonitorObjPool,  \* block -> [alloc, owner, fd, monitorRef, handlerObjList]
    unlinked,        \* sigNum -> handler objects of HandlerObjPool that are allocated
                     \* and linked in no list (le_dls_Remove without le_mem_Release)
    fdTable,         \* descriptor -> [open, mask]: the signalfd table of the kernel
    fdMonitors,      \* reference -> [state, fd, thread]: the event loop's registrations
    sigMask,         \* thread -> set of blocked signals (kernel thread mask)
    sigPending,      \* thread -> set of pending signals
    pc,              \* thread -> position: [at, fd, sig, fn]
    calls,           \* the records the dispatcher routed: <<[thread, sigNum, handler]>>
    sigAction,       \* fatal signal -> disposition (the sigaction table of the kernel)
    GdbServerPort,   \* the static GdbServerPort
    crash,           \* the ShowStackSignalHandler invocation in progress:
                     \* [at, sigNum, left, raises, entered]
    stderrOut,       \* what the invocation in progress wrote to descriptor 2
    children,        \* the children the process forked
    log              \* the LE_WARN and LE_CRIT messages emitted (each one once)

vars == <<proc, diag, SigMonKey, MonitorObjPool, unlinked, fdTable, fdMonitors,
          sigMask, sigPending, pc, calls,
          sigAction, GdbServerPort, crash, stderrOut, children, log>>

\* The state of the crash diagnostics.
crashVars == <<sigAction, GdbServerPort, crash, stderrOut, children, log>>

\* The state of the signal event registry and of the dispatcher.
regVars == <<SigMonKey, MonitorObjPool, unlinked, fdTable, fdMonitors, sigMask,
             sigPending, pc, calls>>

NoDiag == [msg |-> "none", sig |-> 0]
Idle == [at |-> "idle", fd |-> NOFD, sig |-> 0, fn |-> "NULL"]

\* A block of the monitor pool that was never written.
\* No invocation of ShowStackSignalHandler: entered holds the signals whose
\* handler was entered and has not returned (they are blocked meanwhile).
\* gdb tells what fork returned and waited what wait returned.
NoCrash == [at |-> "none", sigNum |-> 0, left |-> 0, raises |-> 0, entered |-> {},
            gdb |-> "none", waited |-> "none"]

FreshMon == [alloc |-> FALSE, owner |-> 0, fd |-> NOFD, monitorRef |-> NULL,
             handlerObjList |-> <<>>]

Init ==
    /\ proc = "running"
    /\ diag = NoDiag
    /\ SigMonKey = [t \in Threads |-> NULL]
    /\ MonitorObjPool = [m \in MonIds |-> FreshMon]
    /\ unlinked = [s \in UserSigs |-> 0]
    /\ fdTable = [f \in Fds |-> [open |-> FALSE, mask |-> {}]]
    /\ fdMonitors = [r \in Refs |-> [state |-> "unused", fd |-> NOFD, thread |-> 0]]
    /\ sigMask = [t \in Threads |-> {}]
    /\ sigPending = [t \in Threads |-> {}]
    /\ pc = [t \in Threads |-> Idle]
    /\ calls = <<>>
    /\ sigAction = [s \in FatalSignalSet |-> "SIG_DFL"]
    /\ GdbServerPort = 0
    /\ crash = NoCrash
    /\ stderrOut = <<>>
    /\ children = 0
    /\ log = {}


(***************************************************************************)
(* Helpers.                                                                *)
(***************************************************************************)
Min(S) == CHOOSE x \in S : \A y \in S : x <= y

\* The sum of f[x] over the x of S.
RECURSIVE SumOver(_, _)
SumOver(f, S) ==
    IF S = {} THEN 0
    ELSE LET x == CHOOSE y \in S : TRUE IN f[x] + SumOver(f, S \ {x})

\* le_dls_Remove: the list without its i-th link.
Remove(list, i) == [j \in 1 .. (Len(list) - 1) |-> IF j < i THEN list[j] ELSE list[j + 1]]

\* The thread runs caller code: it is outside the dispatcher, or inside a
\* callback the dispatcher invoked (the callback may call the API).
CanCall(t) == proc = "running" /\ pc[t].at \in {"idle", "handler"}

\* LE_FATAL / LE_ASSERT: the process ends with a diagnostic.
Fatal(msg, sig) == proc' = "fatal" /\ diag' = [msg |-> msg, sig |-> sig]

\* FindHandlerObj: the first handler object of the list with that sigNum
\* (its position in the list), NULL when there is none.
FindHandlerObj(sigNum, list) ==
    IF \E i \in DOMAIN list : list[i].sigNum = sigNum
    THEN Min({i \in DOMAIN list : list[i].sigNum = sigNum})
    ELSE NULL

\* Variants of the parameter check with one comparison missing.
NotAllowedWithoutTrap(sigNum) ==
    \/ sigNum = SIGKILL \/ sigNum = SIGSTOP \/ sigNum = SIGFPE \/ sigNum = SIGILL
    \/ sigNum = SIGSEGV \/ sigNum = SIGBUS \/ sigNum = SIGABRT \/ sigNum = SIGIOT
    \/ sigNum = SIGSYS

NotAllowedWithoutSys(sigNum) ==
    \/ sigNum = SIGKILL \/ sigNum = SIGSTOP \/ sigNum = SIGFPE \/ sigNum = SIGILL
    \/ sigNum = SIGSEGV \/ sigNum = SIGBUS \/ sigNum = SIGABRT \/ sigNum = SIGIOT
    \/ sigNum = SIGTRAP

\* The parameter check of le_sig_SetEventHandler.
NotAllowed(sigNum) ==
    \/ sigNum = SIGKILL \/ sigNum = SIGSTOP \/ sigNum = SIGFPE \/ sigNum = SIGILL
    \/ sigNum = SIGSEGV \/ sigNum = SIGBUS \/ sigNum = SIGABRT \/ sigNum = SIGIOT
    \/ sigNum = SIGTRAP \/ sigNum = SIGSYS

\* Variant that starts from a full set (sigfillset) instead of an empty one.
RecreateSigSetFill(list) == UserSigs \cup {list[i].sigNum : i \in DOMAIN list}

\* Variant of the loop that starts at the second link of the list.
RecreateSigSetSkipFirst(list) == {list[i].sigNum : i \in DOMAIN list \ {1}}

\* "Recreate the signal mask": the sigNum of every handler object of the list.
RecreateSigSet(list) == {list[i].sigNum : i \in DOMAIN list}

\* signalfd(fd, &sigSet, SFD_NONBLOCK): fd = -1 creates a descriptor (the
\* lowest free one), an open signalfd gets its mask replaced, anything else
\* fails with -1.
signalfd(fd, sigSet) ==
    IF fd = NOFD /\ \E f \in Fds : ~fdTable[f].open
    THEN LET nf == Min({f \in Fds : ~fdTable[f].open})
         IN  [fd |-> nf, table |-> [fdTable EXCEPT ![nf] = [open |-> TRUE, mask |-> sigSet]]]
    ELSE IF fd \in Fds /\ fdTable[fd].open
         THEN [fd |-> fd, table |-> [fdTable EXCEPT ![fd].mask = sigSet]]
         ELSE [fd |-> NOFD, table |-> fdTable]

\* Variant that creates a descriptor on every call instead of updating the
\* one of the monitor object.
UpdateSignalFdCreate(fd, list) == signalfd(NOFD, RecreateSigSet(list))

\* "Update or create the signal fd": the descriptor of the monitor object is
\* handed to signalfd with the recreated signal set.
UpdateSignalFd(fd, list) == signalfd(fd, RecreateSigSet(list))

\* Variant with a key that is one process-wide pointer: a thread that has
\* stored nothing reads what another thread stored.
GetSpecificProcessWide(t) ==
    IF SigMonKey[t] # NULL \/ \A u \in Threads : SigMonKey[u] = NULL
    THEN SigMonKey[t]
    ELSE Min({SigMonKey[u] : u \in Threads} \ {NULL})

\* Variant of a key in which nothing stays stored.
GetSpecificNothing(t) == NULL

\* pthread_getspecific(SigMonKey) in thread t.
GetSpecific(t) == SigMonKey[t]

\* le_fdMonitor_Create(name, fd, OurSigHandler, POLLIN) by thread t: a new
\* reference (references are not reused).
NewRef == Min({r \in Refs : fdMonitors[r].state = "unused"})
le_fdMonitor_Create(r, fd, t) ==
    [fdMonitors EXCEPT ![r] = [state |-> "alive", fd |-> fd, thread |-> t]]

\* Variant without the lookup result: a handler is always queued as a new
\* object.
UpdateHandlerListAppend(list, i, sigNum, h) ==
    IF h = "NULL"
    THEN IF i = NULL THEN list ELSE Remove(list, i)
    ELSE Append(list, [sigNum |-> sigNum, handler |-> h])

\* The handler list le_sig_SetEventHandler leaves: a new object queued at the
\* tail, the found object removed (NULL handler), or its handler replaced.
UpdateHandlerList(list, i, sigNum, h) ==
    IF i = NULL
    THEN Append(list, [sigNum |-> sigNum, handler |-> h])
    ELSE IF h = "NULL"
         THEN Remove(list, i)
         ELSE [list EXCEPT ![i].handler = h]

\* The handler objects in use: those linked in the list of some block of
\* the monitor pool, and the unlinked ones.
Linked == SumOver([m \in MonIds |-> Len(MonitorObjPool[m].handlerObjList)], MonIds)
Unlinked == SumOver(unlinked, UserSigs)
HandlerObjPool == Linked + Unlinked

\* The handler object le_sig_SetEventHandler takes out of the list with
\* le_dls_Remove stays allocated: the code does not release it.
UnlinkedAfterSet(i, sigNum, h) ==
    IF i # NULL /\ h = "NULL"
    THEN [unlinked EXCEPT ![sigNum] = @ + 1]
    ELSE unlinked

(***************************************************************************)
(* le_sig_Block(sigNum) in thread t: pthread_sigmask(SIG_BLOCK, {sigNum}). *)
(***************************************************************************)
\* tid == getpid(): the caller is the main thread of the process.
\* Variant that takes every caller for the main thread.
IsMainThreadAlways(t) == TRUE
IsMainThread(t) == t = 1

BlockWarning == "Blocking signals not in the main thread may result in unexpected behaviour."

\* syscall(SYS_gettid) does not fail, and sigemptyset, sigaddset and
\* pthread_sigmask succeed for a valid signal number: the LE_FATAL_IF and
\* the LE_ASSERTs are dead.
le_sig_Block(t, sigNum) ==
    /\ CanCall(t)
    /\ log' = IF IsMainThread(t) THEN log ELSE log \cup {BlockWarning}
    /\ UNCHANGED <<sigAction, GdbServerPort, crash, stderrOut, children>>
    /\ sigMask' = [sigMask EXCEPT ![t] = @ \cup {sigNum}]
    /\ UNCHANGED <<proc, diag, SigMonKey, MonitorObjPool, unlinked, fdTable,
                   fdMonitors, sigPending, pc, calls>>

\* Variant without the first early return.
NothingToRemoveNever(ptr, h) == FALSE

\* "Event handler already does not exist so we don't need to do anything":
\* the thread has no monitor object and the handler argument is NULL.
NothingToRemove(ptr, h) == ptr = NULL /\ h = "NULL"

(***************************************************************************)
(* le_sig_SetEventHandler(sigNum, sigEventHandler) in thread t.            *)
(***************************************************************************)
le_sig_SetEventHandler(t, sigNum, h) ==
    /\ CanCall(t)
    /\ UNCHANGED crashVars
    /\ IF NotAllowed(sigNum)
       THEN /\ Fatal("Signal event handler is not allowed", sigNum)
            /\ UNCHANGED <<SigMonKey, MonitorObjPool, unlinked, fdTable, fdMonitors,
                           sigMask, sigPending, pc, calls>>
       ELSE IF NothingToRemove(GetSpecific(t), h)
       THEN UNCHANGED vars
       ELSE \E m \in (IF GetSpecific(t) = NULL
                      THEN {b \in MonIds : ~MonitorObjPool[b].alloc}
                      ELSE {GetSpecific(t)}) :
            LET pool0 == IF GetSpecific(t) = NULL
                         THEN [MonitorObjPool EXCEPT ![m] =
                                  [alloc |-> TRUE, owner |-> t, fd |-> NOFD,
                                   monitorRef |-> NULL, handlerObjList |-> <<>>]]
                         ELSE MonitorObjPool
                list0 == pool0[m].handlerObjList
                i     == FindHandlerObj(sigNum, list0)
                list1 == UpdateHandlerList(list0, i, sigNum, h)
                sfd   == UpdateSignalFd(pool0[m].fd, list1)
                pool1 == [pool0 EXCEPT ![m].handlerObjList = list1, ![m].fd = sfd.fd]
            IN  IF i = NULL /\ h = "NULL"
                THEN /\ SigMonKey' = [SigMonKey EXCEPT ![t] = m]
                     /\ MonitorObjPool' = pool0
                     /\ UNCHANGED <<proc, diag, unlinked, fdTable, fdMonitors, sigMask,
                                    sigPending, pc, calls>>
                ELSE /\ (i = NULL => HandlerObjPool < MaxHandlerObjs)
                     /\ IF sfd.fd = NOFD
                        THEN /\ Fatal("Could not set signal event handler", sigNum)
                             /\ MonitorObjPool' = pool1
                             /\ UNCHANGED fdMonitors
                        ELSE /\ UNCHANGED <<proc, diag>>
                             /\ IF pool1[m].monitorRef = NULL
                                THEN /\ MonitorObjPool' =
                                            [pool1 EXCEPT ![m].monitorRef = NewRef]
                                     /\ fdMonitors' = le_fdMonitor_Create(NewRef, sfd.fd, t)
                                ELSE /\ MonitorObjPool' = pool1
                                     /\ UNCHANGED fdMonitors
                     /\ SigMonKey' = [SigMonKey EXCEPT ![t] = m]
                     /\ unlinked' = UnlinkedAfterSet(i, sigNum, h)
                     /\ fdTable' = sfd.table
                     /\ UNCHANGED <<sigMask, sigPending, pc, calls>>

(***************************************************************************)
(* le_sig_DeleteAll() in thread t.  The thread-local key is not reset, so  *)
(* after the call it still points at the released monitor object; what the *)
(* collaborators do with a deleted reference or a released block is one of *)
(* Misuse (they end the process, or they do nothing).                      *)
(***************************************************************************)
Misuse == {"fatal", "ignored"}

\* The monitor object after every handler object was popped from its list
\* and released, and the monitor object itself was released.
PopAndRelease(mon) == [mon EXCEPT !.handlerObjList = <<>>, !.alloc = FALSE]

\* What the first close(fd) of an open descriptor does: it succeeds, or it
\* is interrupted by a signal (EINTR) and the descriptor is still open, or
\* it is interrupted and the kernel has released the descriptor all the
\* same (what Linux does): the second close then fails with EBADF.
CloseResults == {"ok", "EINTR", "EINTR released"}

\* close(fd) is repeated while it fails with EINTR: whether the descriptor
\* is closed at the end of the loop, and whether the loop ends in LE_FATAL.
CloseLoop(fdOk, c) ==
    [closed |-> fdOk, fatal |-> ~fdOk \/ c = "EINTR released"]

le_sig_DeleteAllOn(t, c) ==
    /\ CanCall(t)
    /\ UNCHANGED crashVars
    /\ IF GetSpecific(t) = NULL
       THEN UNCHANGED vars
       ELSE \E o \in Misuse :
            LET m     == GetSpecific(t)
                mon   == MonitorObjPool[m]
                ref   == mon.monitorRef
                refOk == ref \in Refs /\ fdMonitors[ref].state = "alive"
                fdOk  == mon.fd \in Fds /\ fdTable[mon.fd].open
                cl    == CloseLoop(fdOk, c)
                mons1 == IF refOk THEN [fdMonitors EXCEPT ![ref].state = "deleted"]
                                  ELSE fdMonitors
            IN  /\ UNCHANGED <<SigMonKey, unlinked, sigMask, sigPending, pc, calls>>
                /\ IF ~refOk /\ o = "fatal"
                   THEN /\ Fatal("Invalid fd monitor reference", 0)
                        /\ UNCHANGED <<MonitorObjPool, fdTable, fdMonitors>>
                   ELSE IF cl.fatal
                   THEN /\ Fatal("Could not close file descriptor", 0)
                        /\ fdMonitors' = mons1
                        /\ fdTable' = IF cl.closed
                                      THEN [fdTable EXCEPT ![mon.fd] = [open |-> FALSE, mask |-> {}]]
                                      ELSE fdTable
                        /\ UNCHANGED MonitorObjPool
                   ELSE /\ fdMonitors' = mons1
                        /\ fdTable' = [fdTable EXCEPT ![mon.fd] = [open |-> FALSE, mask |-> {}]]
                        /\ MonitorObjPool' = [MonitorObjPool EXCEPT ![m] = PopAndRelease(mon)]
                        /\ IF ~mon.alloc /\ o = "fatal"
                           THEN Fatal("Releasing a free block", 0)
                           ELSE UNCHANGED <<proc, diag>>

\* close of a signalfd is not interrupted: it succeeds for an open
\* descriptor.
le_sig_DeleteAll(t) == CanCall(t) /\ le_sig_DeleteAllOn(t, "ok")

(***************************************************************************)
(* The kernel: a signal raised at thread t (pthread_kill, raise).  A       *)
(* blocked signal becomes pending (a standard signal is queued once: one   *)
(* raised while it is pending is merged); an unblocked one takes its       *)
(* disposition, which for the user signals is the default one: the process *)
(* is killed.                                                              *)
(***************************************************************************)
\* The signals queued so far: the records read and the pending signals.
Queued == Len(calls) + SumOver([t \in Threads |-> Cardinality(sigPending[t])], Threads)

Raise(t, s) ==
    /\ proc = "running"
    /\ UNCHANGED crashVars
    /\ IF s \in sigMask[t]
       THEN /\ s \notin sigPending[t] => Queued < MaxRaise
            /\ sigPending' = [sigPending EXCEPT ![t] = @ \cup {s}]
            /\ UNCHANGED <<proc, diag>>
       ELSE /\ proc' = "killed"
            /\ diag' = [msg |-> "Killed by signal", sig |-> s]
            /\ UNCHANGED sigPending
    /\ UNCHANGED <<SigMonKey, MonitorObjPool, unlinked, fdTable, fdMonitors,
                   sigMask, pc, calls>>

(***************************************************************************)
(* The event loop of thread t finds a monitored descriptor readable and    *)
(* calls OurSigHandler(fd, POLLIN).                                        *)
(***************************************************************************)
Readable(t, f) == f \in Fds /\ fdTable[f].open /\ fdTable[f].mask \cap sigPending[t] # {}

EventLoop(t) ==
    /\ proc = "running"
    /\ UNCHANGED crashVars
    /\ pc[t].at = "idle"
    /\ \E r \in Refs :
          /\ fdMonitors[r].state = "alive"
          /\ fdMonitors[r].thread = t
          /\ Readable(t, fdMonitors[r].fd)
          /\ pc' = [pc EXCEPT ![t] = [Idle EXCEPT !.at = "drain", !.fd = fdMonitors[r].fd]]
    /\ UNCHANGED <<proc, diag, SigMonKey, MonitorObjPool, unlinked, fdTable,
                   fdMonitors, sigMask, sigPending, calls>>

(***************************************************************************)
(* OurSigHandler: one turn of the drain loop, up to the call of the user   *)
(* handler; HandlerReturn is the return of that call into the loop.        *)
(***************************************************************************)
\* Variant that takes the records in the reverse order.
NextRecordLast(t, f) ==
    CHOOSE x \in fdTable[f].mask \cap sigPending[t] :
        \A y \in fdTable[f].mask \cap sigPending[t] : y <= x

\* The record read(fd) returns: standard signals come lowest number first.
NextRecord(t, f) == Min(fdTable[f].mask \cap sigPending[t])

\* RouteRecord without the lookup: the handler of the first handler object.
RouteRecordHead(s, list) ==
    IF list # <<>> /\ list[1].handler # "NULL" THEN list[1].handler ELSE "NULL"

\* The handler OurSigHandler calls for a record of signal s: the handler of the
\* handler object found for s, none ("NULL") when no object is found.
RouteRecord(s, list) ==
    LET i == FindHandlerObj(s, list)
    IN  IF i # NULL /\ list[i].handler # "NULL" THEN list[i].handler ELSE "NULL"

\* What read(fd, &sigInfo, sizeof(sigInfo)) returns: a record of a signal,
\* 0 bytes, or -1 with an errno.
ReadRecord(s) == [kind |-> "record", sig |-> s]
ReadEnd(k) == [kind |-> k, sig |-> 0]
ReadResults ==
    {ReadRecord(s) : s \in UserSigs} \cup {ReadEnd(k) : k \in {"zero", "EAGAIN", "EINTR", "EBADF", "EIO"}}

\* read() of thread t on descriptor f as the kernel of the model answers it:
\* EBADF for a closed descriptor, EAGAIN (the signalfd is non-blocking) when
\* no signal of the descriptor's set is pending, the next record otherwise.
read(t, f) ==
    IF ~fdTable[f].open THEN ReadEnd("EBADF")
    ELSE IF ~Readable(t, f) THEN ReadEnd("EAGAIN")
    ELSE ReadRecord(NextRecord(t, f))

\* numBytesRead == 0, or -1 with EAGAIN: the loop is left.
\* Variant that leaves the loop on 0 bytes only.
NothingMoreToReadOnZero(res) == res.kind = "zero"
NothingMoreToRead(res) == res.kind \in {"zero", "EAGAIN"}

\* -1 with EINTR: no branch is taken and the loop reads again.
\* Variant that reads again after every error but EBADF.
ReadAgainOnError(res) == res.kind \in {"EINTR", "EIO"}
ReadAgain(res) == res.kind = "EINTR"

\* One turn of the loop of OurSigHandler in thread t for the result res of its
\* read: a record is routed to its handler (handler "NULL": no handler is
\* called), 0 bytes or EAGAIN end the loop, EINTR repeats the read, any other
\* error is fatal.
DrainTurn(t, res) ==
    IF res.kind = "record"
    THEN IF GetSpecific(t) = NULL
         THEN /\ Fatal("Assert Failed: monitorObjPtr != NULL", 0)
              /\ UNCHANGED <<pc, calls>>
         ELSE LET fn == RouteRecord(res.sig, MonitorObjPool[GetSpecific(t)].handlerObjList)
              IN  /\ UNCHANGED <<proc, diag>>
                  /\ calls' = Append(calls, [thread |-> t, sigNum |-> res.sig,
                                             handler |-> fn])
                  /\ IF fn # "NULL"
                     THEN pc' = [pc EXCEPT ![t] = [at |-> "handler", fd |-> pc[t].fd,
                                                  sig |-> res.sig, fn |-> fn]]
                     ELSE UNCHANGED pc
    ELSE IF NothingMoreToRead(res)
    THEN /\ pc' = [pc EXCEPT ![t] = Idle]
         /\ UNCHANGED <<proc, diag, calls>>
    ELSE IF ReadAgain(res)
    THEN UNCHANGED <<proc, diag, pc, calls>>
    ELSE /\ Fatal("Could not read from signal fd", 0)
         /\ UNCHANGED <<pc, calls>>

OurSigHandler(t) ==
    /\ proc = "running"
    /\ UNCHANGED crashVars
    /\ pc[t].at = "drain"
    /\ LET res == read(t, pc[t].fd)
       IN  /\ DrainTurn(t, res)
           /\ sigPending' = IF res.kind = "record"
                            THEN [sigPending EXCEPT ![t] = @ \ {res.sig}]
                            ELSE sigPending
    /\ UNCHANGED <<SigMonKey, MonitorObjPool, unlinked, fdTable, fdMonitors, sigMask>>

\* TermSignalHandler does not return.
HandlerReturn(t) ==
    /\ proc = "running"
    /\ UNCHANGED crashVars
    /\ pc[t].at = "handler"
    /\ pc[t].fn # "TermSignalHandler"
    /\ pc' = [pc EXCEPT ![t] = [Idle EXCEPT !.at = "drain", !.fd = pc[t].fd]]
    /\ UNCHANGED <<proc, diag, SigMonKey, MonitorObjPool, unlinked, fdTable,
                   fdMonitors, sigMask, sigPending, calls>>

(***************************************************************************)
(* Spec: the whole pipeline in the process leader thread: the registry     *)
(* operations, signals raised at the thread, and the dispatcher with its   *)
(* callbacks (which may call the registry operations themselves).          *)
(***************************************************************************)
Leader == 1

Next ==
    \/ \E s \in UserSigs : le_sig_Block(Leader, s)
    \/ \E s \in Sigs, h \in Handlers \cup {"NULL"} : le_sig_SetEventHandler(Leader, s, h)
    \/ le_sig_DeleteAll(Leader)
    \/ \E s \in UserSigs : Raise(Leader, s)
    \/ EventLoop(Leader)
    \/ OurSigHandler(Leader)
    \/ HandlerReturn(Leader)

Spec == Init /\ [][Next]_vars

(***************************************************************************)
(* SpecThreads: the registry operations called from every thread, in any   *)
(* interleaving (no signal is raised).                                     *)
(***************************************************************************)
NextThreads ==
    \/ \E t \in Threads, s \in UserSigs : le_sig_Block(t, s)
    \/ \E t \in Threads, s \in Sigs, h \in Handlers \cup {"NULL"} :
          le_sig_SetEventHandler(t, s, h)
    \/ \E t \in Threads : le_sig_DeleteAll(t)

SpecThreads == Init /\ [][NextThreads]_vars

(***************************************************************************)
(* SpecDrain: the dispatcher of the leader thread with what read() returns *)
(* taken as an input: any record, whatever the signal set of the           *)
(* descriptor, 0 bytes, or an error.  The event loop calls OurSigHandler   *)
(* for the registered descriptor of the thread; callbacks may call         *)
(* le_sig_SetEventHandler and le_sig_DeleteAll.                            *)
(***************************************************************************)
\* The fd monitor of thread t reports its descriptor to OurSigHandler.
FdEvent(t) ==
    /\ proc = "running"
    /\ UNCHANGED crashVars
    /\ pc[t].at = "idle"
    /\ \E r \in Refs :
          /\ fdMonitors[r].state = "alive"
          /\ fdMonitors[r].thread = t
          /\ pc' = [pc EXCEPT ![t] = [Idle EXCEPT !.at = "drain", !.fd = fdMonitors[r].fd]]
    /\ UNCHANGED <<proc, diag, SigMonKey, MonitorObjPool, unlinked, fdTable,
                   fdMonitors, sigMask, sigPending, calls>>

\* One turn of the drain loop for the read result res.
OurSigHandlerOn(t, res) ==
    /\ proc = "running"
    /\ UNCHANGED crashVars
    /\ pc[t].at = "drain"
    /\ IF fdTable[pc[t].fd].open THEN res.kind # "EBADF" ELSE res.kind = "EBADF"
    /\ res.kind = "record" => Len(calls) < MaxRaise
    /\ DrainTurn(t, res)
    /\ UNCHANGED <<SigMonKey, MonitorObjPool, unlinked, fdTable, fdMonitors, sigMask,
                   sigPending>>

NextDrain ==
    \/ \E s \in UserSigs, h \in Handlers \cup {"NULL"} : le_sig_SetEventHandler(Leader, s, h)
    \/ le_sig_DeleteAll(Leader)
    \/ FdEvent(Leader)
    \/ \E res \in ReadResults : OurSigHandlerOn(Leader, res)
    \/ HandlerReturn(Leader)

SpecDrain == Init /\ [][NextDrain]_vars

(***************************************************************************)
(* Crash diagnostics.  The environment of the process is an input of       *)
(* le_sig_InstallShowStackHandler: a variable is unset, or it holds a      *)
(* string (a sequence of characters).                                      *)
(***************************************************************************)
Unset == [set |-> FALSE, val |-> <<>>]
Value(str) == [set |-> TRUE, val |-> str]

\* Values of SIGNAL_SHOW_INFO.
ShowInfoValues ==
    {Unset} \cup
    {Value(v) : v \in {<<"d", "i", "s", "a", "b", "l", "e">>,
                       <<"D", "I", "S", "A", "B", "L", "E">>,
                       <<"D", "i", "s", "a", "b", "l", "e">>,
                       <<"n", "o">>, <<"N", "O">>, <<"n", "O">>,
                       <<"y", "e", "s">>, <<"n">>,
                       <<"d", "i", "s", "a", "b", "l", "e", "d">>, <<>>}}

\* Values of GDBSERVER_PORT.
GdbPortValues ==
    {Unset} \cup
    {Value(v) : v \in {<<"0">>, <<"7">>, <<"0", "7">>, <<" ", "7">>, <<"+", "7">>,
                       <<"7", "x">>, <<"x">>, <<"x", "7">>, <<>>}}

UpperCase == <<"A", "B", "C", "D", "E", "F", "G", "H", "I", "J", "K", "L", "M",
               "N", "O", "P", "Q", "R", "S", "T", "U", "V", "W", "X", "Y", "Z">>
LowerCase == <<"a", "b", "c", "d", "e", "f", "g", "h", "i", "j", "k", "l", "m",
               "n", "o", "p", "q", "r", "s", "t", "u", "v", "w", "x", "y", "z">>

tolower(c) ==
    IF \E i \in 1 .. 26 : UpperCase[i] = c
    THEN LowerCase[CHOOSE i \in 1 .. 26 : UpperCase[i] = c]
    ELSE c

\* strcmp: 0 when the strings are equal (the sign of the difference is not
\* used by the caller).
strcmp(a, b) == IF a = b THEN 0 ELSE 1

\* strcasecmp: 0 when the strings are equal once every letter is lowered.
strcasecmp(a, b) ==
    IF [i \in 1 .. Len(a) |-> tolower(a[i])] = [i \in 1 .. Len(b) |-> tolower(b[i])]
    THEN 0 ELSE 1

DecDigits == <<"0", "1", "2", "3", "4", "5", "6", "7", "8", "9">>
isdigit(c) == \E i \in 1 .. 10 : DecDigits[i] = c
DigitVal(c) == (CHOOSE i \in 1 .. 10 : DecDigits[i] = c) - 1
isspace(c) == c \in {" ", "\t", "\n"}

\* The string without its leading white space.
RECURSIVE SkipSpace(_)
SkipSpace(str) ==
    IF str # <<>> /\ isspace(Head(str)) THEN SkipSpace(Tail(str)) ELSE str

\* The value of the leading decimal digits of str after acc (the values of
\* GdbPortValues are far below UINT_MAX).
RECURSIVE ScanDigits(_, _)
ScanDigits(str, acc) ==
    IF str # <<>> /\ isdigit(Head(str))
    THEN ScanDigits(Tail(str), acc * 10 + DigitVal(Head(str)))
    ELSE acc

\* sscanf(str, "%u", &port): [n, val], n the number of conversions (1 when
\* digits follow the optional white space and plus sign, else 0 or EOF).
\* No value of GdbPortValues has a minus sign.
sscanf_u(str) ==
    LET s1   == SkipSpace(str)
        s2   == IF s1 # <<>> /\ Head(s1) = "+" THEN Tail(s1) ELSE s1
    IN  IF s2 # <<>> /\ isdigit(Head(s2))
        THEN [n |-> 1, val |-> ScanDigits(s2, 0)]
        ELSE [n |-> 0, val |-> 0]

\* The values of SIGNAL_SHOW_INFO that skip the installation.
\* Variant comparing the letters as they are.
ShowInfoDisabledExact(show) ==
    /\ show.set
    /\ \/ strcmp(show.val, <<"d", "i", "s", "a", "b", "l", "e">>) = 0
       \/ strcmp(show.val, <<"n", "o">>) = 0
ShowInfoDisabled(show) ==
    /\ show.set
    /\ \/ strcasecmp(show.val, <<"d", "i", "s", "a", "b", "l", "e">>) = 0
       \/ strcasecmp(show.val, <<"n", "o">>) = 0

\* The signals le_sig_InstallShowStackHandler calls sigaction for.
InstalledSignals == {SIGSEGV, SIGBUS, SIGILL, SIGFPE, SIGABRT}

\* sa.sa_flags.
\* Variant without SA_RESETHAND.
sa_flagsKeep == {"SA_NOCLDSTOP", "SA_SIGINFO"}
sa_flags == {"SA_NOCLDSTOP", "SA_SIGINFO", "SA_RESETHAND"}

DisabledWarning == "Handle of SEGV/ILL/BUS/FPE/ABRT and show information disabled"
PortWarning == "Incorrect GDBSERVER_PORT. Discarded..."

\* The port after the GDBSERVER_PORT part of the installation.
ParsedPort(gdb, port) ==
    IF gdb.set /\ sscanf_u(gdb.val).n = 1 THEN sscanf_u(gdb.val).val ELSE port

\* Variant that adds the parsed number to the port.
InstalledPortAdd(show, gdb, port) ==
    IF ~ShowInfoDisabled(show) /\ gdb.set /\ sscanf_u(gdb.val).n = 1
    THEN port + sscanf_u(gdb.val).val ELSE port

\* The dispositions and the port an installation leaves, from the ones it
\* finds: a disabled installation returns before it touches either.
InstalledActions(show, sa) ==
    IF ShowInfoDisabled(show) THEN sa
    ELSE [s \in FatalSignalSet |->
             IF s \in InstalledSignals THEN "ShowStackSignalHandler" ELSE sa[s]]

InstalledPort(show, gdb, port) ==
    IF ShowInfoDisabled(show) THEN port ELSE ParsedPort(gdb, port)

\* sigaction of the fatal signals succeeds (it fails for an invalid signal
\* number or for SIGKILL / SIGSTOP only), so the LE_CRIT branches are dead.
le_sig_InstallShowStackHandler(show, gdb) ==
    /\ proc = "running"
    /\ crash.at = "none"
    /\ sigAction' = InstalledActions(show, sigAction)
    /\ GdbServerPort' = InstalledPort(show, gdb, GdbServerPort)
    /\ log' = IF ShowInfoDisabled(show) THEN log \cup {DisabledWarning}
              ELSE IF gdb.set /\ sscanf_u(gdb.val).n # 1 THEN log \cup {PortWarning}
              ELSE log
    /\ UNCHANGED <<proc, diag, crash, stderrOut, children>>
    /\ UNCHANGED regVars

(***************************************************************************)
(* The kernel: delivery of a fatal signal to the thread.  With the default *)
(* disposition the process is killed.  With a handler, the handler is      *)
(* entered: SA_RESETHAND resets the disposition to the default one on      *)
(* entry, and the signal is blocked until its handler returns (no          *)
(* SA_NODEFER).  Only the innermost invocation is kept: every path of the  *)
(* handler ends in raise, so an interrupted invocation never resumes.      *)
(***************************************************************************)
Kill(s) == proc' = "killed" /\ diag' = [msg |-> "Killed by signal", sig |-> s]

Deliver(s) ==
    IF sigAction[s] = "SIG_DFL"
    THEN /\ Kill(s)
         /\ UNCHANGED <<sigAction, crash, stderrOut>>
    ELSE /\ sigAction' = IF "SA_RESETHAND" \in sa_flags
                         THEN [sigAction EXCEPT ![s] = "SIG_DFL"] ELSE sigAction
         /\ crash' = [at |-> "process", sigNum |-> s, left |-> 0, raises |-> 0,
                      entered |-> crash.entered \cup {s},
                      gdb |-> "none", waited |-> "none"]
         /\ stderrOut' = <<>>
         /\ UNCHANGED <<proc, diag>>

\* Number of handler invocations in progress at once.
MaxNested == 1
\* Number of chunks, lines or frames of one section.
MaxItems == 1

\* A fatal signal is generated for the thread (a fault, abort(), kill).  A
\* fault of a signal that its running handler blocks kills the process
\* (the kernel forces the default action).
Fault(s) ==
    /\ proc = "running"
    /\ IF s \in crash.entered
       THEN /\ Kill(s)
            /\ UNCHANGED <<sigAction, crash, stderrOut>>
       ELSE /\ sigAction[s] # "SIG_DFL" => Cardinality(crash.entered) < MaxNested
            /\ Deliver(s)
    /\ UNCHANGED <<GdbServerPort, children, log>>
    /\ UNCHANGED regVars

(***************************************************************************)
(* ShowStackSignalHandler, one write per step.  crash.at names the next    *)
(* write; the non-ARM backtrace is modelled.                               *)
(***************************************************************************)
Explain(sigNum) ==
    CASE sigNum = SIGSEGV -> "ILLEGAL ADDRESS"
      [] sigNum = SIGFPE  -> "FLOATING POINT EXCEPTION AT"
      [] sigNum = SIGTRAP -> "TRAP AT"
      [] sigNum = SIGABRT -> "ABORT"
      [] sigNum = SIGILL  -> "ILLEGAL INSTRUCTION AT"
      [] sigNum = SIGBUS  -> "BUS ERROR AT"
      [] OTHER            -> "UNEXPECTED SIGNAL"

WriteLabels == {"process", "signal", "explain", "versionTitle", "version", "versionNl",
                "versionFail", "cmdlineTitle", "cmdline", "cmdlineNl", "mapTitle", "map",
                "backtraceTitle", "frame", "done"}

\* What the write at a label sends to descriptor 2.
Text(at, sigNum) ==
    CASE at = "process"        -> "PROCESS:"
      [] at = "signal"         -> "SIGNAL:"
      [] at = "explain"        -> Explain(sigNum)
      [] at = "versionTitle"   -> "LEGATO VERSION"
      [] at = "version"        -> "(version)"
      [] at = "versionFail"    -> "Cannot read legato version"
      [] at = "cmdlineTitle"   -> "PROCESS COMMAND LINE"
      [] at = "cmdline"        -> "(cmdline)"
      [] at = "mapTitle"       -> "PROCESS MAP"
      [] at = "map"            -> "(map line)"
      [] at = "backtraceTitle" -> "BACKTRACE"
      [] at = "frame"          -> "(frame)"
      [] at = "done"           -> "DONE"
      [] at \in {"versionNl", "cmdlineNl"} -> "\n"

\* Outcomes of write(2, buffer, expectedSize): all of it, a part, or -1.
WriteResults == {"ok", "short", "error"}
\* Outcomes of opening and reading a file: it cannot be opened, the read
\* fails or returns nothing, or there is data.
FileResults == {"noopen", "nodata", "data"}

At(label, left) == [at |-> label, left |-> left]

\* The step after the process map section.
\* Variant that goes past the backtrace title.
AfterMapSkip == At("done", 0)
AfterMap == At("backtraceTitle", 0)

\* The write after the LEGATO VERSION title: the version when the file was
\* read, the failure line when it opened and the read gave nothing, and the
\* next title when it did not open.
AfterVersionTitle(o) ==
    IF o = "noopen" THEN At("cmdlineTitle", 0)
    ELSE IF o = "data" THEN At("version", 0)
    ELSE At("versionFail", 0)

\* The write that follows a successful write at a label: o is the outcome
\* of the file the section opens, n the number of items it holds.
NextWrite(at, left, o, n) ==
    CASE at = "process"        -> At("signal", 0)
      [] at = "signal"         -> At("explain", 0)
      [] at = "explain"        -> At("versionTitle", 0)
      [] at = "versionTitle"   -> AfterVersionTitle(o)
      [] at = "version"        -> At("versionNl", 0)
      [] at = "versionNl"      -> At("cmdlineTitle", 0)
      [] at = "versionFail"    -> At("cmdlineTitle", 0)
      [] at = "cmdlineTitle"   -> IF o = "noopen" THEN At("mapTitle", 0)
                                  ELSE IF o = "data" /\ n > 0 THEN At("cmdline", n)
                                  ELSE At("cmdlineNl", 0)
      [] at = "cmdline"        -> IF left > 1 THEN At("cmdline", left - 1)
                                  ELSE At("cmdlineNl", 0)
      [] at = "cmdlineNl"      -> At("mapTitle", 0)
      [] at = "mapTitle"       -> IF o = "data" /\ n > 0 THEN At("map", n) ELSE AfterMap
      [] at = "map"            -> IF left > 1 THEN At("map", left - 1) ELSE AfterMap
      [] at = "backtraceTitle" -> IF n > 0 THEN At("frame", n) ELSE At("done", 0)
      [] at = "frame"          -> IF left > 1 THEN At("frame", left - 1) ELSE At("done", 0)
      [] at = "done"           -> IF GdbServerPort # 0 THEN At("gdb", 0) ELSE At("raise", 0)

\* CHECK_WRITE and the two checks written by hand: the write passes when it
\* wrote expectedSize bytes.
\* Variant that only detects an error return.
CHECK_WRITE_Error(w) == w # "error"
CHECK_WRITE(w) == w = "ok"

ShowStackSignalHandler(w, o, n) ==
    /\ proc = "running"
    /\ crash.at \in WriteLabels
    /\ IF CHECK_WRITE(w)
       THEN LET next == NextWrite(crash.at, crash.left, o, n)
            IN  /\ stderrOut' = Append(stderrOut, Text(crash.at, crash.sigNum))
                /\ crash' = [crash EXCEPT !.at = next.at, !.left = next.left]
       ELSE /\ stderrOut' = IF w = "short" THEN Append(stderrOut, "(part)") ELSE stderrOut
            /\ crash' = [crash EXCEPT !.at = "return", !.raises = @ + 1]
    /\ UNCHANGED <<proc, diag, sigAction, GdbServerPort, children, log>>
    /\ UNCHANGED regVars

\* Outcomes of fork: a child was created, or fork returned -1.
ForkResults == {"child", "failed"}
\* Outcomes of wait(&gdbStatus), which waits for any child of the process:
\* the forked child terminated (gdbserver exited, or execvpe failed and the
\* child ran on to its own raise), another child of the process terminated,
\* or the call failed because the process has no child.
WaitResults == {"gdbserver", "other", "ECHILD"}

\* The results wait can give after fork returned as crash.gdb tells.
CanWait(r) ==
    /\ r = "gdbserver" => crash.gdb = "forked"
    /\ r = "ECHILD" => crash.gdb = "failed"

\* fork (execvpe in the child), then wait in the parent.
GdbServer(f, r) ==
    /\ proc = "running"
    /\ \/ /\ crash.at = "gdb"
          /\ children' = IF f = "child" THEN children + 1 ELSE children
          /\ crash' = [crash EXCEPT !.at = "wait",
                                    !.gdb = IF f = "child" THEN "forked" ELSE "failed"]
       \/ /\ crash.at = "wait"
          /\ CanWait(r)
          /\ crash' = [crash EXCEPT !.at = "raise", !.waited = r]
          /\ UNCHANGED children
    /\ UNCHANGED <<proc, diag, sigAction, GdbServerPort, stderrOut, log>>
    /\ UNCHANGED regVars

\* The final raise(sigNum): the signal is blocked, it stays pending.
ReRaise ==
    /\ proc = "running"
    /\ crash.at = "raise"
    /\ crash' = [crash EXCEPT !.at = "return", !.raises = @ + 1]
    /\ UNCHANGED <<proc, diag, sigAction, GdbServerPort, stderrOut, children, log>>
    /\ UNCHANGED regVars

\* The handler returns: the kernel unblocks sigNum and delivers the pending
\* one (every path to the return raised it).
SigReturn ==
    /\ proc = "running"
    /\ crash.at = "return"
    /\ LET s == crash.sigNum
       IN  IF sigAction[s] = "SIG_DFL"
           THEN /\ Kill(s)
                /\ UNCHANGED <<sigAction, crash, stderrOut>>
           ELSE /\ sigAction' = IF "SA_RESETHAND" \in sa_flags
                                THEN [sigAction EXCEPT ![s] = "SIG_DFL"] ELSE sigAction
                /\ crash' = [crash EXCEPT !.at = "process", !.left = 0, !.raises = 0,
                                          !.gdb = "none", !.waited = "none"]
                /\ stderrOut' = <<>>
                /\ UNCHANGED <<proc, diag>>
    /\ UNCHANGED <<GdbServerPort, children, log>>
    /\ UNCHANGED regVars

(***************************************************************************)
(* SpecCrash: the installation of the crash diagnostics, fatal signals,    *)
(* and the run of the handler, in a process without other children whose   *)
(* fork succeeds.                                                          *)
(***************************************************************************)
NextCrash ==
    \/ \E show \in ShowInfoValues, gdb \in GdbPortValues :
          le_sig_InstallShowStackHandler(show, gdb)
    \/ \E s \in FatalSignalSet : Fault(s)
    \/ \E w \in WriteResults, o \in FileResults, n \in 0 .. MaxItems :
          ShowStackSignalHandler(w, o, n)
    \/ GdbServer("child", "gdbserver")
    \/ ReRaise
    \/ SigReturn

SpecCrash == Init /\ [][NextCrash]_vars

(***************************************************************************)
(* SpecGdb: the debug-server step with every outcome of fork and wait, in  *)
(* a run of the handler whose writes succeed and whose files do not open.  *)
(***************************************************************************)
NextGdb ==
    \/ \E show \in ShowInfoValues, gdb \in GdbPortValues :
          le_sig_InstallShowStackHandler(show, gdb)
    \/ \E s \in FatalSignalSet : Fault(s)
    \/ ShowStackSignalHandler("ok", "noopen", 0)
    \/ \E f \in ForkResults, r \in WaitResults : GdbServer(f, r)
    \/ ReRaise
    \/ SigReturn

SpecGdb == Init /\ [][NextGdb]_vars

(***************************************************************************)
(* The default termination handler.                                        *)
(***************************************************************************)
EXIT_SUCCESS == 0

\* TermSignalHandler, called by the dispatcher: LE_CRIT("Terminated"), then
\* exit(EXIT_SUCCESS).
TermSignalHandler(t) ==
    /\ proc = "running"
    /\ pc[t].at = "handler"
    /\ pc[t].fn = "TermSignalHandler"
    /\ proc' = "exited"
    /\ diag' = [msg |-> "Terminated", sig |-> EXIT_SUCCESS]
    /\ UNCHANGED regVars
    /\ UNCHANGED crashVars

\* The calls of le_sig_InstallDefaultTermHandler, in their order.
\* Variant that registers the handler first.
TermCallsSetFirst == <<"le_sig_SetEventHandler", "le_sig_Block">>
TermCalls == <<"le_sig_Block", "le_sig_SetEventHandler">>

\* The calls of le_sig_InstallDefaultTermHandler that thread t has made.
TermCallsDone(t) ==
    (IF SIGTERM \in sigMask[t] THEN 1 ELSE 0)
    + (IF GetSpecific(t) # NULL
          /\ FindHandlerObj(SIGTERM, MonitorObjPool[GetSpecific(t)].handlerObjList) # NULL
       THEN 1 ELSE 0)

\* le_sig_InstallDefaultTermHandler, one call per step.
le_sig_InstallDefaultTermHandler(t) ==
    /\ TermCallsDone(t) < Len(TermCalls)
    /\ IF TermCalls[TermCallsDone(t) + 1] = "le_sig_Block"
       THEN le_sig_Block(t, SIGTERM)
       ELSE le_sig_SetEventHandler(t, SIGTERM, "TermSignalHandler")

(***************************************************************************)
(* SpecTerm: every thread installs the default termination handler, the    *)
(* kernel raises SIGTERM at any time, and the event loop dispatches.       *)
(***************************************************************************)
NextTerm ==
    \/ \E t \in Threads : le_sig_InstallDefaultTermHandler(t)
    \/ \E t \in Threads : Raise(t, SIGTERM)
    \/ \E t \in Threads : EventLoop(t)
    \/ \E t \in Threads : OurSigHandler(t)
    \/ \E t \in Threads : TermSignalHandler(t)

SpecTerm == Init /\ [][NextTerm]_vars

(***************************************************************************)
(* SpecLive: the dispatcher of the leader thread taken to its end.  The    *)
(* thread blocks signals, sets handlers and raises signals at itself, in   *)
(* its own code and in its callbacks, and the steps of the dispatcher are  *)
(* taken whenever they stay possible: the read of the loop is non-blocking *)
(* and a callback is taken to return.  The history of the calls is not     *)
(* state of the program: its oldest record may be dropped, so that any     *)
(* number of signals can be raised in the run.                             *)
(***************************************************************************)
\* Thread t raises signal s at itself (pthread_kill(pthread_self(), s)).
RaiseInThread(t, s) == CanCall(t) /\ Raise(t, s)

ForgetCall ==
    /\ proc = "running"
    /\ calls # <<>>
    /\ calls' = Tail(calls)
    /\ UNCHANGED <<proc, diag, SigMonKey, MonitorObjPool, unlinked, fdTable, fdMonitors,
                   sigMask, sigPending, pc>>
    /\ UNCHANGED crashVars

NextLive ==
    \/ \E s \in UserSigs : le_sig_Block(Leader, s)
    \/ \E s \in UserSigs, h \in Handlers \cup {"NULL"} : le_sig_SetEventHandler(Leader, s, h)
    \/ \E s \in UserSigs : RaiseInThread(Leader, s)
    \/ EventLoop(Leader)
    \/ OurSigHandler(Leader)
    \/ HandlerReturn(Leader)
    \/ ForgetCall

SpecLive ==
    /\ Init
    /\ [][NextLive]_vars
    /\ WF_vars(OurSigHandler(Leader))
    /\ WF_vars(HandlerReturn(Leader))

(***************************************************************************)
(* SpecEvents: the fd monitor calls OurSigHandler(fd, events) with every   *)
(* event set poll can report for the descriptor: POLLIN when a signal of   *)
(* its set is pending, and the bits poll reports unasked.                  *)
(***************************************************************************)
POLLIN == "POLLIN"
PollBits == {POLLIN, "POLLERR", "POLLHUP"}
EventSets == (SUBSET PollBits) \ {{}}

UnexpectedEvents == "Unexpected event set from signal fd."

\* Variant that returns whenever a bit other than POLLIN is set.
ReturnsBeforeReadOnAny(events) == events \ {POLLIN} # {}

\* events & ~POLLIN is not 0 and events & POLLIN is 0.
ReturnsBeforeRead(events) == events \ {POLLIN} # {} /\ POLLIN \notin events

\* The entry of OurSigHandler, up to the read loop.
OurSigHandlerCalled(t, events) ==
    /\ proc = "running"
    /\ pc[t].at = "idle"
    /\ \E r \in Refs :
          /\ fdMonitors[r].state = "alive"
          /\ fdMonitors[r].thread = t
          /\ POLLIN \in events => Readable(t, fdMonitors[r].fd)
          /\ pc' = IF ReturnsBeforeRead(events) THEN pc
                   ELSE [pc EXCEPT ![t] = [Idle EXCEPT !.at = "drain", !.fd = fdMonitors[r].fd]]
    /\ log' = IF events \ {POLLIN} # {} THEN log \cup {UnexpectedEvents} ELSE log
    /\ UNCHANGED <<proc, diag, SigMonKey, MonitorObjPool, unlinked, fdTable,
                   fdMonitors, sigMask, sigPending, calls>>
    /\ UNCHANGED <<sigAction, GdbServerPort, crash, stderrOut, children>>

NextEvents ==
    \/ \E s \in UserSigs : le_sig_Block(Leader, s)
    \/ \E s \in UserSigs, h \in Handlers \cup {"NULL"} : le_sig_SetEventHandler(Leader, s, h)
    \/ \E s \in UserSigs : Raise(Leader, s)
    \/ \E events \in EventSets : OurSigHandlerCalled(Leader, events)
    \/ OurSigHandler(Leader)
    \/ HandlerReturn(Leader)

SpecEvents == Init /\ [][NextEvents]_vars

(***************************************************************************)
(* SpecClose: le_sig_SetEventHandler and le_sig_DeleteAll in every thread, *)
(* with what the first close of le_sig_DeleteAll does taken as an input.   *)
(***************************************************************************)
NextClose ==
    \/ \E t \in Threads, s \in UserSigs, h \in Handlers \cup {"NULL"} :
          le_sig_SetEventHandler(t, s, h)
    \/ \E t \in Threads, c \in CloseResults : le_sig_DeleteAllOn(t, c)

SpecClose == Init /\ [][NextClose]_vars

(***************************************************************************)
(* Vocabulary of the properties.                                           *)
(***************************************************************************)
AnyHandler == Handlers \cup {"NULL"}

\* The thread has a context: its key points at an allocated monitor object
\* that the thread itself created.
Present(t) ==
    /\ SigMonKey[t] # NULL
    /\ MonitorObjPool[SigMonKey[t]].alloc
    /\ MonitorObjPool[SigMonKey[t]].owner = t

\* The thread's key points at a monitor object that was released.
Released(t) == SigMonKey[t] # NULL /\ ~Present(t)

Context(t) == MonitorObjPool[SigMonKey[t]]
HandlerList(t) == Context(t).handlerObjList

\* The signal numbers with a handler in the thread's context.
HandlerSigs(t) ==
    IF Present(t)
    THEN {s \in Sigs : \E i \in DOMAIN HandlerList(t) : HandlerList(t)[i].sigNum = s}
    ELSE {}

\* The handlers the thread's context holds for signal s.
HandlersOf(t, s) ==
    {HandlerList(t)[i].handler : i \in {j \in DOMAIN HandlerList(t) : HandlerList(t)[j].sigNum = s}}

\* No le_sig_DeleteAll has released a context so far.
NoRelease == \A t \in Threads : ~Released(t)

\* Everything but the process state and the diagnostic.
stateVars == <<regVars, crashVars>>

(***************************************************************************)
(* C1.  As stated: after any sequence of le_sig_SetEventHandler calls the  *)
(* set of signals blocked in the thread's kernel mask equals the set of    *)
(* signal numbers with a handler in the thread's context.                  *)
(***************************************************************************)
C1_MaskStep ==
    \A t \in Threads :
        NoRelease /\ proc' = "running" /\ sigMask'[t] # HandlerSigs(t)' =>
            \A s \in Sigs, h \in AnyHandler : ~le_sig_SetEventHandler(t, s, h)

C1_MaskEqualsHandlerSet == [][C1_MaskStep]_vars

\* C1, amended: le_sig_SetEventHandler leaves the kernel mask of every thread
\* as it was (only le_sig_Block adds to it); what equals the handler set after
\* any sequence of le_sig_SetEventHandler calls is the signal set of the
\* thread's signalfd.
C1_FdMaskInv ==
    NoRelease =>
        \A t \in Threads : Present(t) /\ proc = "running" =>
            /\ Context(t).fd \in Fds
            /\ fdTable[Context(t).fd].open
            /\ fdTable[Context(t).fd].mask = HandlerSigs(t)

C1_SetHandlerKeepsMask ==
    sigMask' # sigMask =>
        \A t \in Threads, s \in Sigs, h \in AnyHandler : ~le_sig_SetEventHandler(t, s, h)

C1_FdMaskEqualsHandlerSet == []C1_FdMaskInv /\ [][C1_SetHandlerKeepsMask]_vars

\* A handler is registered for a signal the thread has not blocked.
C1_Witness ==
    /\ proc = "running"
    /\ \E t \in Threads :
          /\ Present(t)
          /\ HandlerSigs(t) = {SIGUSR1, SIGUSR2}
          /\ sigMask[t] = {SIGUSR2}
          /\ fdTable[Context(t).fd].mask = {SIGUSR1, SIGUSR2}

(***************************************************************************)
(* C2.  le_sig_SetEventHandler for kill, stop or a member of the           *)
(* FatalSignalSet ends the process with the diagnostic of a reserved       *)
(* signal, whatever the handler argument and the prior state, and changes  *)
(* nothing else: no context, handler object, descriptor, mask or           *)
(* registration.                                                           *)
(***************************************************************************)
C2_ReservedStep ==
    \/ /\ proc' = "fatal"
       /\ diag'.msg = "Signal event handler is not allowed"
       /\ diag'.sig \in ReservedSet
       /\ UNCHANGED stateVars
    \/ \A t \in Threads, s \in ReservedSet, h \in AnyHandler :
          ~le_sig_SetEventHandler(t, s, h)

C2_ReservedRejectedWithoutChange == [][C2_ReservedStep]_vars

\* A reserved signal was rejected in a thread that has handlers registered.
C2_Witness ==
    /\ proc = "fatal"
    /\ diag.msg = "Signal event handler is not allowed"
    /\ diag.sig \in FatalSignalSet
    /\ \E t \in Threads : Present(t) /\ HandlerSigs(t) # {} /\ sigMask[t] # {}

(***************************************************************************)
(* C3.  As stated: the signal numbers le_sig_SetEventHandler rejects are   *)
(* exactly the reserved set (kill, stop and the six FatalSignalSet         *)
(* members); every other signal number is accepted.  The diagnostic of a   *)
(* rejection names the signal that was passed.                             *)
(***************************************************************************)
Rejected == proc' = "fatal" /\ diag'.msg = "Signal event handler is not allowed"

\* Every rejection is of a signal in the set.
C3_RejectedWithin(set) ==
    proc = "fatal" /\ diag.msg = "Signal event handler is not allowed" =>
        diag.sig \in set

\* Every call with a signal in the set is rejected.
C3_RejectsAll(set) ==
    Rejected \/ \A t \in Threads, s \in set, h \in AnyHandler :
                    ~le_sig_SetEventHandler(t, s, h)

Registered(t, s) == Present(t) /\ s \in HandlerSigs(t)

\* Raising s at t leaves the process running and one record of s queued.
C4_RaiseQueues(t, s) ==
    /\ proc' = proc
    /\ s \in sigPending'[t]
    /\ calls' = calls

C4_RaiseStated ==
    \A t \in Threads, s \in UserSigs :
        Registered(t, s) /\ Raise(t, s) => C4_RaiseQueues(t, s)

\* Every call of a handler consumes one queued record, is the call of the
\* handler registered for the record's signal, and starts while no other call
\* of the thread is in progress; a record is consumed by no other step.
C4_DispatchOnce ==
    calls' # calls \/ (\E t \in Threads : ~(sigPending[t] \subseteq sigPending'[t])) =>
        \E t \in Threads :
           LET rec == calls'[Len(calls')]
           IN  /\ calls' = Append(calls, rec)
               /\ rec.thread = t
               /\ pc[t].at = "drain"
               /\ rec.sigNum \in sigPending[t]
               /\ sigPending' = [sigPending EXCEPT ![t] = @ \ {rec.sigNum}]
               /\ Present(t)
               /\ IF rec.sigNum \in HandlerSigs(t)
                  THEN HandlersOf(t, rec.sigNum) = {rec.handler}
                  ELSE rec.handler = "NULL"
               /\ IF rec.handler = "NULL"
                  THEN pc'[t].at = "drain"
                  ELSE pc'[t] = [at |-> "handler", fd |-> pc[t].fd,
                                 sig |-> rec.sigNum, fn |-> rec.handler]

\* A queued record of a signal with a handler is drained: the event loop calls
\* the dispatcher.
C4_DrainEnabled ==
    \A t \in {Leader}, s \in UserSigs :
        /\ proc = "running"
        /\ pc[t].at = "idle"
        /\ Registered(t, s)
        /\ s \in sigPending[t]
        => ENABLED EventLoop(t)

C4_OneInvocationEach ==
    []C4_DrainEnabled /\ [][C4_RaiseStated /\ C4_DispatchOnce]_vars

\* C4, amended: the same, for signals the thread has blocked (le_sig_Block)
\* before they are raised.
C4_RaiseBlocked ==
    \A t \in Threads, s \in UserSigs :
        s \in sigMask[t] /\ Registered(t, s) /\ Raise(t, s) => C4_RaiseQueues(t, s)

C4_OneInvocationEachWhenBlocked ==
    []C4_DrainEnabled /\ [][C4_RaiseBlocked /\ C4_DispatchOnce]_vars

\* Two signals were raised once each and the dispatcher has drained: each
\* handler was called once with its signal.
C4_Witness ==
    /\ proc = "running"
    /\ pc[Leader].at = "idle"
    /\ sigPending[Leader] = {}
    /\ Present(Leader)
    /\ HandlersOf(Leader, SIGUSR1) = {"F1"}
    /\ HandlersOf(Leader, SIGUSR2) = {"F2"}
    /\ calls = << [thread |-> Leader, sigNum |-> SIGUSR1, handler |-> "F1"],
                  [thread |-> Leader, sigNum |-> SIGUSR2, handler |-> "F2"] >>

(***************************************************************************)
(* C5.  As stated: once le_sig_SetEventHandler(sig, NULL) has cleared a    *)
(* handler of a thread, raising sig at the thread calls no handler and     *)
(* does not run the default disposition of sig (the process is not ended). *)
(***************************************************************************)
\* The handler of s was cleared in t's context and none was set since.
Cleared(t, s) == Present(t) /\ unlinked[s] > 0 /\ s \notin HandlerSigs(t)

\* The step calls no handler and leaves the process as it was.
C5_NoEffect ==
    /\ proc' = proc
    /\ calls' = calls
    /\ pc' = pc

C5_RaiseStated ==
    \A t \in Threads, s \in UserSigs :
        Raise(t, s) /\ Cleared(t, s) => C5_NoEffect

\* While the handler of s is cleared the dispatcher calls no handler for s.
C5_NoCall ==
    calls' # calls =>
        LET rec == calls'[Len(calls')]
        IN  Len(calls') > 0 /\ Cleared(rec.thread, rec.sigNum) => rec.handler = "NULL"

\* While the handler of s is cleared the signalfd of the context does not
\* deliver s: a raised s stays pending and is never read.
C5_NotDelivered ==
    \A t \in Threads, s \in UserSigs :
        proc = "running" /\ Cleared(t, s) =>
            /\ Context(t).fd \in Fds
            /\ s \notin fdTable[Context(t).fd].mask
            /\ ~Readable(t, Context(t).fd) \/ sigPending[t] # {s}

C5_ClearedRaiseHasNoEffect ==
    []C5_NotDelivered /\ [][C5_RaiseStated /\ C5_NoCall]_vars

\* C5, amended: the same for a signal the thread has blocked (le_sig_Block):
\* the raised signal stays pending; the default disposition runs when the
\* signal was never blocked, as le_sig_SetEventHandler blocks nothing.
C5_RaiseBlocked ==
    \A t \in Threads, s \in UserSigs :
        s \in sigMask[t] /\ Raise(t, s) /\ Cleared(t, s) =>
            C5_NoEffect /\ s \in sigPending'[t]

C5_ClearedRaiseHasNoEffectWhenBlocked ==
    []C5_NotDelivered /\ [][C5_RaiseBlocked /\ C5_NoCall]_vars

\* A handler was called for a signal, then cleared, and the signal raised
\* again: it is pending and the dispatcher is idle.
C5_Witness ==
    /\ proc = "running"
    /\ pc[Leader].at = "idle"
    /\ Cleared(Leader, SIGUSR1)
    /\ SIGUSR1 \in sigPending[Leader]
    /\ calls = << [thread |-> Leader, sigNum |-> SIGUSR1, handler |-> "F1"] >>
    /\ \A r \in Refs : fdMonitors[r].state = "alive" =>
          ~Readable(Leader, fdMonitors[r].fd)

(***************************************************************************)
(* C6.  le_sig_DeleteAll called twice in a row by a thread that had a      *)
(* context: the first call leaves the thread without a context, the second *)
(* call is a no-op (nothing is unregistered, closed or released a second   *)
(* time, the released context is not used).                                *)
(***************************************************************************)
C6_SecondCall ==
    \A t \in Threads :
        Released(t) /\ le_sig_DeleteAll(t) => UNCHANGED vars

C6_DeleteAllTwiceIsSafe == [][C6_SecondCall]_vars

(***************************************************************************)
(* C7.  le_sig_DeleteAll in a thread that never had a context changes      *)
(* nothing: no registration is deleted, no descriptor closed, no block     *)
(* released, and the thread still has no context.                          *)
(***************************************************************************)
C7_Step ==
    \A t \in Threads :
        SigMonKey[t] = NULL /\ le_sig_DeleteAll(t) =>
            UNCHANGED vars /\ SigMonKey'[t] = NULL

C7_DeleteAllWithoutContextIsNoOp == [][C7_Step]_vars

\* A thread without a context can call le_sig_DeleteAll while another thread
\* has a context with handlers, an open descriptor and a live registration.
C7_Witness ==
    /\ proc = "running"
    /\ \E t, u \in Threads :
          /\ SigMonKey[t] = NULL
          /\ ENABLED le_sig_DeleteAll(t)
          /\ Present(u)
          /\ HandlerSigs(u) # {}
          /\ fdTable[Context(u).fd].open
          /\ fdMonitors[Context(u).monitorRef].state = "alive"

(***************************************************************************)
(* C8.  After le_sig_DeleteAll on a thread with a context the thread has   *)
(* no context, and the next le_sig_SetEventHandler with a handler creates  *)
(* a context again: a newly allocated monitor object, a new descriptor and *)
(* a new registration, without reading or writing what was released.       *)
(***************************************************************************)
C8_SetCreatesAgain ==
    \A t \in Threads :
        Released(t) =>
            \A s \in UserSigs, h \in Handlers :
                le_sig_SetEventHandler(t, s, h) =>
                    /\ proc' = "running"
                    /\ Present(t)'
                    /\ HandlersOf(t, s)' = {h}
                    /\ fdTable'[Context(t)'.fd].open
                    /\ fdMonitors'[Context(t)'.monitorRef].state = "alive"
                    /\ fdMonitors[Context(t)'.monitorRef].state = "unused"

C8_ReleaseThenSetCreatesContext == [][C8_SetCreatesAgain]_vars

(***************************************************************************)
(* C9.  A context holds at most one handler object per signal number;      *)
(* le_sig_SetEventHandler with a handler for a signal that has an object   *)
(* replaces the handler in that object instead of adding a second one, and *)
(* a later dispatch of the signal calls the handler set last.              *)
(***************************************************************************)
C9_AtMostOneEntry ==
    \A m \in MonIds :
        LET list == MonitorObjPool[m].handlerObjList
        IN  \A i, j \in DOMAIN list : list[i].sigNum = list[j].sigNum => i = j

C9_Replace ==
    proc' = "running" =>
        \A t \in Threads, s \in UserSigs :
            Registered(t, s) =>
                \A h \in Handlers :
                    le_sig_SetEventHandler(t, s, h) =>
                        /\ Len(HandlerList(t)') = Len(HandlerList(t))
                        /\ HandlersOf(t, s)' = {h}
                        /\ \A o \in HandlerSigs(t) \ {s} :
                              HandlersOf(t, o)' = HandlersOf(t, o)

\* The handler a dispatch calls is the one the object of the signal holds,
\* which is the one set last.
C9_DispatchLatest ==
    calls' # calls /\ Len(calls') > 0 =>
        LET rec == calls'[Len(calls')]
        IN  rec.handler # "NULL" =>
               /\ Registered(rec.thread, rec.sigNum)
               /\ HandlersOf(rec.thread, rec.sigNum) = {rec.handler}

C9_OneEntryPerSignal ==
    []C9_AtMostOneEntry /\ [][C9_Replace /\ C9_DispatchLatest]_vars

\* A signal was dispatched to F1, its handler replaced by F2 and the signal
\* dispatched again; the context holds one object for it.
C9_Witness ==
    /\ proc = "running"
    /\ Present(Leader)
    /\ \E s \in UserSigs :
          /\ calls = << [thread |-> Leader, sigNum |-> s, handler |-> "F1"],
                        [thread |-> Leader, sigNum |-> s, handler |-> "F2"] >>
          /\ HandlersOf(Leader, s) = {"F2"}
    /\ Len(HandlerList(Leader)) = 1
    /\ Unlinked = 0

(***************************************************************************)
(* C10.  Removing the last handler of a context with                       *)
(* le_sig_SetEventHandler(sig, NULL) leaves the context with the same      *)
(* descriptor and the same registration; no le_sig_SetEventHandler call    *)
(* closes a descriptor, deletes a registration or releases a context.      *)
(***************************************************************************)
C10_KeepsContext ==
    proc' = "running" =>
        \A t \in Threads :
            Present(t) =>
                \A s \in Sigs, h \in AnyHandler :
                    le_sig_SetEventHandler(t, s, h) =>
                        /\ Present(t)'
                        /\ SigMonKey'[t] = SigMonKey[t]
                        /\ Context(t)'.fd = Context(t).fd
                        /\ Context(t)'.monitorRef = Context(t).monitorRef
                        /\ fdTable'[Context(t).fd].open
                        /\ fdMonitors'[Context(t).monitorRef] =
                              [state |-> "alive", fd |-> Context(t).fd, thread |-> t]

C10_ReleasesNothing ==
    \/ /\ \A f \in Fds : fdTable[f].open => fdTable'[f].open
       /\ \A r \in Refs : fdMonitors[r].state = "alive" => fdMonitors'[r] = fdMonitors[r]
       /\ \A m \in MonIds : MonitorObjPool[m].alloc => MonitorObjPool'[m].alloc
    \/ \A t \in Threads, s \in Sigs, h \in AnyHandler : ~le_sig_SetEventHandler(t, s, h)

C10_SetHandlerReleasesNothing == [][C10_KeepsContext /\ C10_ReleasesNothing]_vars

\* The last handler of a context was removed: the context has no handler,
\* its descriptor is open and its registration is alive.
C10_Witness ==
    /\ proc = "running"
    /\ Present(Leader)
    /\ HandlerList(Leader) = <<>>
    /\ Unlinked > 0
    /\ fdTable[Context(Leader).fd] = [open |-> TRUE, mask |-> {}]
    /\ fdMonitors[Context(Leader).monitorRef] =
          [state |-> "alive", fd |-> Context(Leader).fd, thread |-> Leader]

(***************************************************************************)
(* C11.  A thread gets a context only through le_sig_SetEventHandler with  *)
(* a handler for a signal outside the reserved set; the same holds for a   *)
(* new descriptor and a new registration.  le_sig_SetEventHandler(sig,     *)
(* NULL) in a thread without a context changes nothing; le_sig_Block and   *)
(* the dispatcher never create a context.                                  *)
(***************************************************************************)
\* The step gives thread t a context or a registration.
C11_Creates(t) ==
    \/ ~Present(t) /\ Present(t)'
    \/ SigMonKey[t] = NULL /\ SigMonKey'[t] # NULL
    \/ \E r \in Refs : fdMonitors[r].state = "unused" /\ fdMonitors'[r].thread = t

\* The step opens a descriptor.
C11_Opens == \E f \in Fds : ~fdTable[f].open /\ fdTable'[f].open

C11_OnlySetHandlerCreates ==
    /\ \A t \in Threads :
          C11_Creates(t) =>
             \E s \in Sigs \ ReservedSet, h \in Handlers : le_sig_SetEventHandler(t, s, h)
    /\ C11_Opens =>
          \E t \in Threads, s \in Sigs \ ReservedSet, h \in Handlers :
             le_sig_SetEventHandler(t, s, h)

C11_NullHandlerCreatesNothing ==
    \A t \in Threads :
        SigMonKey[t] = NULL =>
            \A s \in UserSigs : le_sig_SetEventHandler(t, s, "NULL") => UNCHANGED vars

C11_ContextOnlyBySetHandler ==
    [][C11_OnlySetHandlerCreates /\ C11_NullHandlerCreatesNothing]_vars

\* The leader created its context with le_sig_SetEventHandler, has blocked a
\* signal and dispatched a record; the other thread has no context.
C11_Witness ==
    /\ proc = "running"
    /\ Present(Leader)
    /\ HandlerSigs(Leader) # {}
    /\ sigMask[Leader] # {}
    /\ calls # <<>>
    /\ \E t \in Threads : SigMonKey[t] = NULL /\ sigMask[t] = {}

(***************************************************************************)
(* C12.  The descriptor of a context is registered with the event loop     *)
(* exactly once: the le_sig_SetEventHandler that creates the context       *)
(* creates the registration, every later le_sig_SetEventHandler of the     *)
(* context leaves the registrations as they are, and the registered        *)
(* descriptor is the descriptor of the context.                            *)
(***************************************************************************)
\* The live registrations of descriptor f.
RegistrationsOf(f) == {r \in Refs : fdMonitors[r].state = "alive" /\ fdMonitors[r].fd = f}

C12_RegisteredOnce ==
    \A t \in Threads :
        proc = "running" /\ Present(t) =>
            /\ Context(t).monitorRef \in Refs
            /\ fdMonitors[Context(t).monitorRef] =
                  [state |-> "alive", fd |-> Context(t).fd, thread |-> t]
            /\ RegistrationsOf(Context(t).fd) = {Context(t).monitorRef}

C12_CreationRegisters ==
    \A t \in Threads :
        ~Present(t) /\ Present(t)' /\ proc' = "running" =>
            /\ fdMonitors[Context(t)'.monitorRef].state = "unused"
            /\ \A r \in Refs \ {Context(t)'.monitorRef} : fdMonitors'[r] = fdMonitors[r]

C12_LaterKeeps ==
    fdMonitors' # fdMonitors =>
        \A t \in Threads :
            Present(t) =>
                \A s \in Sigs, h \in AnyHandler : ~le_sig_SetEventHandler(t, s, h)

C12_DescriptorRegisteredOnce ==
    []C12_RegisteredOnce /\ [][C12_CreationRegisters /\ C12_LaterKeeps]_vars

\* Two contexts, each with its own descriptor and registration; the handler of
\* the first was set again after the context was created.
C12_Witness ==
    /\ proc = "running"
    /\ \A t \in Threads : Present(t) /\ RegistrationsOf(Context(t).fd) = {Context(t).monitorRef}
    /\ Context(1).fd # Context(2).fd
    /\ HandlersOf(1, SIGUSR1) = {"F2"}
    /\ HandlersOf(2, SIGUSR1) = {"F1"}
    /\ \A t \in Threads : fdTable[Context(t).fd] = [open |-> TRUE, mask |-> {SIGUSR1}]

(***************************************************************************)
(* C13.  Within a thread the dispatcher calls the handlers in the order in *)
(* which the kernel returns the records of the descriptor (pending         *)
(* standard signals lowest number first), and a call begins only after the *)
(* previous one has returned.                                              *)
(***************************************************************************)
\* Every call is added at the end of the calls made so far, by a thread that
\* is in its drain loop (no call of the thread is in progress), for the record
\* the kernel returns next.
C13_InOrder ==
    calls' # calls =>
        \E t \in Threads :
            /\ pc[t].at = "drain"
            /\ Len(calls') = Len(calls) + 1
            /\ SubSeq(calls', 1, Len(calls)) = calls
            /\ calls'[Len(calls')].thread = t
            /\ \A o \in fdTable[pc[t].fd].mask \cap sigPending[t] :
                  calls'[Len(calls')].sigNum <= o
            /\ calls'[Len(calls')].sigNum \in fdTable[pc[t].fd].mask \cap sigPending[t]

\* The call in progress in a thread is the last call the thread started.
C13_CallInProgressIsLast ==
    \A t \in Threads :
        pc[t].at = "handler" =>
            /\ calls # <<>>
            /\ calls[Len(calls)] = [thread |-> t, sigNum |-> pc[t].sig, handler |-> pc[t].fn]

C13_HandlersInRecordOrder == []C13_CallInProgressIsLast /\ [][C13_InOrder]_vars

\* The handler of the first record is running while the second record waits.
C13_Witness ==
    /\ proc = "running"
    /\ pc[Leader].at = "handler"
    /\ pc[Leader].sig = SIGUSR1
    /\ Len(calls) = 1
    /\ SIGUSR2 \in sigPending[Leader]
    /\ Readable(Leader, pc[Leader].fd)

(***************************************************************************)
(* C14.  Contexts are private to their thread under every interleaving:    *)
(* le_sig_SetEventHandler and le_sig_DeleteAll called by thread a change   *)
(* neither the handler list, nor the descriptor, nor the registration of   *)
(* the context of another thread b.                                        *)
(***************************************************************************)
\* The step changes the context of thread b, its descriptor or its
\* registration.
C14_Changes(b) ==
    \/ MonitorObjPool'[SigMonKey[b]] # MonitorObjPool[SigMonKey[b]]
    \/ fdTable'[Context(b).fd] # fdTable[Context(b).fd]
    \/ fdMonitors'[Context(b).monitorRef] # fdMonitors[Context(b).monitorRef]

C14_Step ==
    \A b \in Threads :
        proc = "running" /\ Present(b) /\ Context(b).fd \in Fds
        /\ Context(b).monitorRef \in Refs /\ C14_Changes(b) =>
            \A a \in Threads \ {b} :
                /\ ~le_sig_DeleteAll(a)
                /\ \A s \in Sigs, h \in AnyHandler : ~le_sig_SetEventHandler(a, s, h)

C14_ContextsAreThreadPrivate == [][C14_Step]_vars

(***************************************************************************)
(* C15.  When the dispatcher reads a record of a signal that has no        *)
(* handler object in the context of the thread, it calls no handler,       *)
(* raises no error and goes on draining.                                   *)
(***************************************************************************)
C15_Step ==
    calls' # calls \/ proc' # proc =>
        \A t \in Threads, s \in UserSigs :
            Present(t) /\ s \notin HandlerSigs(t) /\ OurSigHandlerOn(t, ReadRecord(s)) =>
                /\ proc' = "running"
                /\ calls' = Append(calls, [thread |-> t, sigNum |-> s, handler |-> "NULL"])
                /\ pc' = pc
                /\ pc'[t].at = "drain"

C15_UnhandledRecordIsDropped == [][C15_Step]_vars

\* A record without a handler object was dropped and the next record of the
\* same drain was routed to its handler.
C15_Witness ==
    /\ proc = "running"
    /\ Present(Leader)
    /\ pc[Leader].at = "handler"
    /\ HandlerSigs(Leader) = {SIGUSR2}
    /\ calls = << [thread |-> Leader, sigNum |-> SIGUSR1, handler |-> "NULL"],
                  [thread |-> Leader, sigNum |-> SIGUSR2, handler |-> "F2"] >>

(***************************************************************************)
(* Vocabulary of the crash diagnostics properties.                         *)
(***************************************************************************)
Handled(s) == sigAction[s] = "ShowStackSignalHandler"

\* The step enters ShowStackSignalHandler for s.
Entry(s) ==
    /\ crash'.at = "process"
    /\ crash'.sigNum = s
    /\ crash.at # "process" \/ crash.sigNum # s

\* The process was killed by the re-raise of the handler's own signal.
KilledByReRaise ==
    /\ proc = "killed"
    /\ crash.at = "return"
    /\ diag = [msg |-> "Killed by signal", sig |-> crash.sigNum]

(***************************************************************************)
(* C16.  After le_sig_InstallShowStackHandler runs with SIGNAL_SHOW_INFO   *)
(* unset, ShowStackSignalHandler is the disposition of every member of     *)
(* FatalSignalSet: SIGSEGV, SIGILL, SIGBUS, SIGFPE, SIGABRT and SIGTRAP.   *)
(* The installation calls sigaction for the first five only.               *)
(***************************************************************************)
C16_InstallStep ==
    (\E gdb \in GdbPortValues : le_sig_InstallShowStackHandler(Unset, gdb))
        => \A s \in FatalSignalSet : sigAction'[s] = "ShowStackSignalHandler"

C16_HandlerInstalledForFatalSignalSet == [][C16_InstallStep]_vars

(***************************************************************************)
(* C17.  The handler is one-shot per signal: it is entered for a signal    *)
(* only when it is the disposition of that signal, and the entry leaves    *)
(* the default disposition; while and after the handler runs for a signal  *)
(* its disposition is the default one; a second delivery of the signal (a  *)
(* fault inside the handler, or the handler's own re-raise delivered at    *)
(* its return) kills the process and does not enter the handler.           *)
(***************************************************************************)
C17_DefaultOnceEntered == \A s \in crash.entered : sigAction[s] = "SIG_DFL"

C17_EntryResets ==
    \A s \in FatalSignalSet :
        Entry(s) => /\ sigAction[s] = "ShowStackSignalHandler"
                    /\ s \notin crash.entered
                    /\ sigAction'[s] = "SIG_DFL"

C17_SecondDelivery ==
    \A s \in crash.entered :
        Fault(s) \/ (s = crash.sigNum /\ SigReturn)
            => /\ proc' = "killed"
               /\ diag' = [msg |-> "Killed by signal", sig |-> s]
               /\ crash' = crash
               /\ stderrOut' = stderrOut

C17_HandlerIsOneShot ==
    []C17_DefaultOnceEntered /\ [][C17_EntryResets /\ C17_SecondDelivery]_vars

\* The handler ran for SIGSEGV and the process died of its re-raise.
C17_Witness == KilledByReRaise /\ crash.sigNum = SIGSEGV /\ crash.raises = 1

(***************************************************************************)
(* C18.  The titles the handler wrote are a prefix of PROCESS:, SIGNAL:,   *)
(* the explanation of the signal, LEGATO VERSION, PROCESS COMMAND LINE,    *)
(* PROCESS MAP, BACKTRACE, DONE, and the content of a section follows its  *)
(* title; a write that succeeds never ends the handler; once DONE is       *)
(* written the output holds every title, begins with PROCESS: and ends     *)
(* with DONE; the handler returns only after one raise of its signal, and  *)
(* its return kills the process by that signal.                            *)
(***************************************************************************)
SectionTitles(sigNum) ==
    <<"PROCESS:", "SIGNAL:", Explain(sigNum), "LEGATO VERSION", "PROCESS COMMAND LINE",
      "PROCESS MAP", "BACKTRACE", "DONE">>

Titles == {SectionTitles(s)[i] : s \in FatalSignalSet, i \in 1 .. 8}
IsTitle(text) == text \in Titles

\* The titles of the output, in the order they were written.
TitlesOf(out) == SelectSeq(out, IsTitle)

C18_TitlesInOrder ==
    crash.at # "none" =>
        LET titles == TitlesOf(stderrOut)
        IN  /\ Len(titles) <= 8
            /\ titles = SubSeq(SectionTitles(crash.sigNum), 1, Len(titles))

C18_ContentFollowsTitle ==
    \A i \in 1 .. Len(stderrOut) :
        /\ stderrOut[i] \in {"(version)", "Cannot read legato version"}
              => i > 1 /\ stderrOut[i - 1] = "LEGATO VERSION"
        /\ stderrOut[i] = "(cmdline)"
              => i > 1 /\ stderrOut[i - 1] \in {"PROCESS COMMAND LINE", "(cmdline)"}
        /\ stderrOut[i] = "(map line)"
              => i > 1 /\ stderrOut[i - 1] \in {"PROCESS MAP", "(map line)"}
        /\ stderrOut[i] = "(frame)"
              => i > 1 /\ stderrOut[i - 1] \in {"BACKTRACE", "(frame)"}

C18_Complete ==
    \/ crash.at \in {"gdb", "wait", "raise"}
    \/ crash.at = "return" /\ stderrOut # <<>> /\ stderrOut[Len(stderrOut)] = "DONE"
    => /\ TitlesOf(stderrOut) = SectionTitles(crash.sigNum)
       /\ stderrOut[1] = "PROCESS:"
       /\ stderrOut[Len(stderrOut)] = "DONE"

C18_ReturnsAfterRaise == crash.raises = IF crash.at = "return" THEN 1 ELSE 0

C18_ReRaiseKills ==
    crash.at = "return" /\ SigReturn
        => proc' = "killed" /\ diag' = [msg |-> "Killed by signal", sig |-> crash.sigNum]

C18_GoodWriteGoesOn ==
    /\ Len(stderrOut') = Len(stderrOut) + 1
    /\ stderrOut'[Len(stderrOut')] \notin {"(part)", "DONE"}
    => /\ crash'.at \in WriteLabels
       /\ crash'.sigNum = crash.sigNum

C18_SectionsInFixedOrder ==
    /\ [](C18_TitlesInOrder /\ C18_ContentFollowsTitle /\ C18_Complete
            /\ C18_ReturnsAfterRaise)
    /\ [][C18_GoodWriteGoesOn /\ C18_ReRaiseKills]_vars

\* Every section had content, every write succeeded, and the process died
\* of the re-raise.
C18_Witness ==
    /\ KilledByReRaise
    /\ stderrOut = <<"PROCESS:", "SIGNAL:", "ILLEGAL ADDRESS", "LEGATO VERSION", "(version)",
                     "\n", "PROCESS COMMAND LINE", "(cmdline)", "\n", "PROCESS MAP",
                     "(map line)", "BACKTRACE", "(frame)", "DONE">>

(***************************************************************************)
(* C19.  A write of the handler that fails or is short, at any label,      *)
(* ends the handler with one raise of the signal: nothing more is written  *)
(* (at most the part the short write sent), no child is forked, and from   *)
(* the return on the invocation writes, forks and raises nothing (only a   *)
(* fault of another signal can still enter the handler for that signal).   *)
(***************************************************************************)
C19_FailedWrite ==
    crash.at \in WriteLabels /\ crash' # crash /\ proc' = "running" =>
        \A w \in {"short", "error"} :
            (\E o \in FileResults, n \in 0 .. MaxItems : ShowStackSignalHandler(w, o, n))
                => /\ crash'.at = "return"
                   /\ crash'.raises = 1
                   /\ children' = children
                   /\ stderrOut' = IF w = "short" THEN Append(stderrOut, "(part)")
                                   ELSE stderrOut

C19_NothingAfterReturn ==
    crash.at = "return" =>
        \/ crash' = crash /\ stderrOut' = stderrOut /\ children' = children
        \/ \E s \in FatalSignalSet \ crash.entered : Entry(s)

C19_WriteFailureReRaisesOnce == [][C19_FailedWrite /\ C19_NothingAfterReturn]_vars

\* The write of the version failed with a debug port configured: the output
\* stops there, no child was forked, the process died of the one re-raise.
C19_Witness ==
    /\ KilledByReRaise
    /\ crash.raises = 1
    /\ GdbServerPort # 0
    /\ children = 0
    /\ stderrOut = <<"PROCESS:", "SIGNAL:", "ILLEGAL ADDRESS", "LEGATO VERSION", "(part)">>

(***************************************************************************)
(* C20.  An installation with SIGNAL_SHOW_INFO holding "disable" or "no"   *)
(* in any letter case changes no disposition (and not the port); a fatal   *)
(* signal whose disposition is the default one kills the process, and      *)
(* without an invocation of the handler nothing is written.                *)
(***************************************************************************)
DisablingValues ==
    {Value(v) : v \in {<<"d", "i", "s", "a", "b", "l", "e">>,
                       <<"D", "I", "S", "A", "B", "L", "E">>,
                       <<"D", "i", "s", "a", "b", "l", "e">>,
                       <<"n", "o">>, <<"N", "O">>, <<"n", "O">>}}

C20_DisabledInstall ==
    crash.at = "none" =>
        \A show \in DisablingValues :
            (\E gdb \in GdbPortValues : le_sig_InstallShowStackHandler(show, gdb))
                => /\ sigAction' = sigAction
                   /\ GdbServerPort' = GdbServerPort
                   /\ DisabledWarning \in log'

C20_DefaultKills ==
    \A s \in FatalSignalSet :
        sigAction[s] = "SIG_DFL" /\ Fault(s)
            => /\ proc' = "killed"
               /\ diag' = [msg |-> "Killed by signal", sig |-> s]
               /\ crash' = crash
               /\ stderrOut' = stderrOut

C20_NoOutputWithoutHandler == crash.at = "none" => stderrOut = <<>>

C20_DisabledInstallsNothing ==
    []C20_NoOutputWithoutHandler /\ [][C20_DisabledInstall /\ C20_DefaultKills]_vars

\* The installation was disabled, then SIGSEGV killed the process: the
\* handler never ran and nothing was written.
C20_Witness ==
    /\ proc = "killed"
    /\ diag = [msg |-> "Killed by signal", sig |-> SIGSEGV]
    /\ log = {DisabledWarning}
    /\ \A s \in FatalSignalSet : sigAction[s] = "SIG_DFL"
    /\ crash = NoCrash
    /\ stderrOut = <<>>

(***************************************************************************)
(* C21.  As stated: when the version file cannot be opened, or its read    *)
(* fails or returns nothing, the write that follows the LEGATO VERSION     *)
(* title is the cannot-read-version line, and the write after that line is *)
(* the PROCESS COMMAND LINE title.                                         *)
(***************************************************************************)
\* The step is the successful write of the LEGATO VERSION title.
C21_TitleWritten ==
    /\ crash.at = "versionTitle"
    /\ stderrOut' = Append(stderrOut, "LEGATO VERSION")

C21_FailureLineThenCmdline ==
    /\ crash.at = "versionFail"
    /\ stderrOut' = Append(stderrOut, "Cannot read legato version")
    => crash'.at = "cmdlineTitle"

C21_ReportsEveryFailure ==
    C21_TitleWritten =>
        \A o \in {"noopen", "nodata"} :
            (\E n \in 0 .. MaxItems : ShowStackSignalHandler("ok", o, n))
                => crash'.at = "versionFail"

C21_VersionFailureIsReported ==
    [][C21_ReportsEveryFailure /\ C21_FailureLineThenCmdline]_vars

\* The version file did not open: the command line title follows the
\* version title.
C21_Witness ==
    /\ proc = "running"
    /\ crash.sigNum = SIGSEGV
    /\ stderrOut = <<"PROCESS:", "SIGNAL:", "ILLEGAL ADDRESS", "LEGATO VERSION",
                     "PROCESS COMMAND LINE">>

(***************************************************************************)
(* C22.  A child is forked only with a non-zero GdbServerPort, by the      *)
(* handler, after DONE was written and before the raise; the port is other *)
(* than 0 only when an installation parsed that value from GDBSERVER_PORT; *)
(* and when a child was forked the handler goes on to its raise only once  *)
(* that child has terminated.                                              *)
(***************************************************************************)
C22_ForkAfterDone ==
    children' # children =>
        /\ children' = children + 1
        /\ GdbServerPort # 0
        /\ crash.at = "gdb"
        /\ crash.raises = 0
        /\ stderrOut # <<>> /\ stderrOut[Len(stderrOut)] = "DONE"
        /\ stderrOut' = stderrOut

C22_NoPortNoFork ==
    /\ crash.at = "done" /\ crash'.at = "gdb" => GdbServerPort # 0
    /\ crash.at = "done" /\ GdbServerPort = 0 /\ crash' # crash
          => crash'.at \in {"raise", "return"} /\ children' = children

C22_PortIsParsed ==
    GdbServerPort' # GdbServerPort =>
        \E show \in ShowInfoValues, gdb \in GdbPortValues :
            /\ gdb.set
            /\ sscanf_u(gdb.val) = [n |-> 1, val |-> GdbServerPort']
            /\ le_sig_InstallShowStackHandler(show, gdb)

C22_RaiseAfterChildExit ==
    crash.at = "wait" /\ crash'.at = "raise" /\ crash.gdb = "forked"
        => crash'.waited = "gdbserver"

C22_DebugServerStep ==
    [][C22_ForkAfterDone /\ C22_NoPortNoFork /\ C22_PortIsParsed
         /\ C22_RaiseAfterChildExit]_vars

\* The handler forked the child, its wait returned for another child of
\* the process, and the re-raise killed the process.
C22_Witness ==
    /\ KilledByReRaise
    /\ GdbServerPort = 7
    /\ children = 1
    /\ crash.gdb = "forked"
    /\ crash.waited = "other"
    /\ stderrOut[Len(stderrOut)] = "DONE"

(***************************************************************************)
(* C23.  le_sig_InstallDefaultTermHandler blocks SIGTERM in the calling    *)
(* thread before it registers the handler: a thread has a handler object   *)
(* for SIGTERM only while SIGTERM is in its mask, that object is the only  *)
(* one for SIGTERM and holds TermSignalHandler, and a SIGTERM raised at    *)
(* such a thread is queued.  The dispatch of a SIGTERM record calls        *)
(* TermSignalHandler, which does not return: the process exits with        *)
(* EXIT_SUCCESS.                                                           *)
(***************************************************************************)
\* The positions of the handler objects for SIGTERM in the list the key of
\* thread t points at.
C23_TermEntries(t) ==
    IF SigMonKey[t] = NULL THEN {}
    ELSE {i \in DOMAIN MonitorObjPool[SigMonKey[t]].handlerObjList :
             MonitorObjPool[SigMonKey[t]].handlerObjList[i].sigNum = SIGTERM}

C23_BlockedWhenRegistered ==
    \A t \in Threads :
        C23_TermEntries(t) # {} =>
            /\ SIGTERM \in sigMask[t]
            /\ Cardinality(C23_TermEntries(t)) = 1
            /\ \A i \in C23_TermEntries(t) :
                  MonitorObjPool[SigMonKey[t]].handlerObjList[i].handler = "TermSignalHandler"

C23_ExitIsSuccess ==
    proc = "exited" =>
        /\ diag = [msg |-> "Terminated", sig |-> EXIT_SUCCESS]
        /\ calls # <<>>
        /\ calls[Len(calls)].sigNum = SIGTERM
        /\ calls[Len(calls)].handler = "TermSignalHandler"

C23_RaiseIsQueued ==
    \A t \in Threads :
        C23_TermEntries(t) # {} /\ Raise(t, SIGTERM)
            => proc' = "running" /\ SIGTERM \in sigPending'[t]

C23_DispatchCallsHandler ==
    calls' # calls =>
        LET rec == calls'[Len(calls')]
        IN  rec.sigNum = SIGTERM =>
                /\ rec.handler = "TermSignalHandler"
                /\ pc'[rec.thread].at = "handler"
                /\ pc'[rec.thread].fn = "TermSignalHandler"

C23_HandlerExits ==
    \A t \in Threads :
        pc[t].at = "handler" /\ pc[t].fn = "TermSignalHandler" =>
            /\ pc'[t] = pc[t]
            /\ TermSignalHandler(t) => proc' = "exited"

C23_DefaultTermHandler ==
    /\ [](C23_BlockedWhenRegistered /\ C23_ExitIsSuccess)
    /\ [][C23_RaiseIsQueued /\ C23_DispatchCallsHandler /\ C23_HandlerExits]_vars

\* The leader installed the handler, a SIGTERM was dispatched and the
\* process exited.
C23_Witness ==
    /\ proc = "exited"
    /\ diag = [msg |-> "Terminated", sig |-> EXIT_SUCCESS]
    /\ SIGTERM \in sigMask[Leader]
    /\ C23_TermEntries(Leader) # {}
    /\ calls = <<[thread |-> Leader, sigNum |-> SIGTERM, handler |-> "TermSignalHandler"]>>

(***************************************************************************)
(* C24.  le_sig_Block(sigNum) of thread t adds sigNum to the mask of t and *)
(* keeps the other signals of that mask; the masks of the other threads,   *)
(* the contexts, handler objects, descriptors, registrations, pending      *)
(* signals and everything else stay as they were; the warning is logged    *)
(* when t is not the process leader, and nothing is logged when it is.     *)
(***************************************************************************)
C24_Frame(t, s) ==
    /\ sigMask'[t] = sigMask[t] \cup {s}
    /\ \A u \in Threads \ {t} : sigMask'[u] = sigMask[u]
    /\ UNCHANGED <<proc, diag, SigMonKey, MonitorObjPool, unlinked, fdTable, fdMonitors,
                   sigPending, pc, calls>>
    /\ UNCHANGED <<sigAction, GdbServerPort, crash, stderrOut, children>>

C24_Warns(t) ==
    IF t = Leader THEN log' = log ELSE log' = log \cup {BlockWarning}

C24_Step ==
    sigMask' # sigMask \/ log' # log =>
        \A t \in Threads, s \in UserSigs :
            le_sig_Block(t, s) => C24_Frame(t, s) /\ C24_Warns(t)

\* A thread that never called le_sig_Block has an empty mask, and the
\* warning is in the log exactly when a thread other than the leader has
\* blocked a signal.
C24_WarnedIffNotLeader ==
    BlockWarning \in log <=> \E t \in Threads \ {Leader} : sigMask[t] # {}

C24_BlockChangesOnlyTheMask == []C24_WarnedIffNotLeader /\ [][C24_Step]_vars

\* The leader blocked one signal without a warning; then the other thread
\* blocked another one, and the warning was logged.
C24_Witness ==
    /\ proc = "running"
    /\ sigMask = [t \in Threads |-> IF t = Leader THEN {SIGUSR1} ELSE {SIGUSR2}]
    /\ log = {BlockWarning}
    /\ \A t \in Threads : SigMonKey[t] = NULL

(***************************************************************************)
(* C25.  Every invocation of the dispatcher terminates: once the drain     *)
(* loop of the leader thread runs, it eventually returns to the event loop *)
(* (or the process has ended), whatever the callbacks do, raising signals  *)
(* and changing handlers included.                                         *)
(***************************************************************************)
C25_Draining == proc = "running" /\ pc[Leader].at \in {"drain", "handler"}

C25_DispatcherTerminates ==
    C25_Draining ~> (pc[Leader].at = "idle" \/ proc # "running")

\* A callback is running for a signal that is pending again: the next read
\* of the loop that called it returns a record, not EAGAIN.
C25_Witness ==
    /\ proc = "running"
    /\ pc[Leader].at = "handler"
    /\ pc[Leader].sig \in sigPending[Leader]
    /\ Len(calls) = MaxRaise - 1

(***************************************************************************)
(* C26.  le_sig_InstallShowStackHandler is idempotent: for every value of  *)
(* SIGNAL_SHOW_INFO and GDBSERVER_PORT and from every state, the signal    *)
(* dispositions and the port an installation leaves are the ones a second  *)
(* installation with the same values leaves too.                           *)
(***************************************************************************)
C26_SecondLeaves(show, gdb) ==
    /\ InstalledActions(show, sigAction') = sigAction'
    /\ InstalledPort(show, gdb, GdbServerPort') = GdbServerPort'

C26_Step ==
    crash.at = "none" /\ crash' = crash /\ proc' = proc =>
        \A show \in ShowInfoValues, gdb \in GdbPortValues :
            le_sig_InstallShowStackHandler(show, gdb) => C26_SecondLeaves(show, gdb)

C26_InstallIsIdempotent == [][C26_Step]_vars

\* Installed with port 7 over an earlier installation with port 0: the
\* handlers of the five signals are set and the port is the last one parsed.
C26_Witness ==
    /\ proc = "running"
    /\ crash = NoCrash
    /\ \A s \in InstalledSignals : sigAction[s] = "ShowStackSignalHandler"
    /\ sigAction[SIGTRAP] = "SIG_DFL"
    /\ GdbServerPort = 7
    /\ log = {}

(***************************************************************************)
(* C27.  le_sig_DeleteAll of a thread whose context is present deletes the *)
(* fd monitor of the context, closes its descriptor, releases the handler  *)
(* objects of its list and releases the monitor object, each once and      *)
(* nothing else; afterwards the list of the context is empty and no        *)
(* handler object of the list is allocated.  A later part is done only     *)
(* when the earlier ones were done.  (Violated: a second le_sig_DeleteAll  *)
(* of another thread closes the descriptor number of a present context.)   *)
(***************************************************************************)
C27_Releases(t) ==
    LET m   == SigMonKey[t]
        mon == MonitorObjPool[m]
    IN  /\ proc' = "running"
        /\ mon.monitorRef \in Refs
        /\ fdMonitors[mon.monitorRef].state = "alive"
        /\ fdMonitors' = [fdMonitors EXCEPT ![mon.monitorRef].state = "deleted"]
        /\ mon.fd \in Fds
        /\ fdTable[mon.fd].open
        /\ fdTable' = [fdTable EXCEPT ![mon.fd] = [open |-> FALSE, mask |-> {}]]
        /\ MonitorObjPool'[m].handlerObjList = <<>>
        /\ ~MonitorObjPool'[m].alloc
        /\ \A o \in MonIds \ {m} : MonitorObjPool'[o] = MonitorObjPool[o]
        /\ Linked' = Linked - Len(mon.handlerObjList)
        /\ unlinked' = unlinked

\* The descriptor is closed only with the fd monitor deleted, and the
\* objects are released only with the descriptor closed.
C27_InOrder(t) ==
    LET mon == MonitorObjPool[SigMonKey[t]]
    IN  /\ (fdTable' # fdTable \/ MonitorObjPool' # MonitorObjPool) /\ mon.monitorRef \in Refs =>
              fdMonitors'[mon.monitorRef].state = "deleted"
        /\ MonitorObjPool' # MonitorObjPool =>
              mon.fd \in Fds /\ ~fdTable'[mon.fd].open

C27_Step ==
    ~Rejected /\ sigMask' = sigMask /\ SigMonKey' = SigMonKey =>
        \A t \in Threads :
            SigMonKey[t] # NULL /\ le_sig_DeleteAll(t) =>
                /\ C27_InOrder(t)
                /\ Present(t) => C27_Releases(t)

C28_Logged == UnexpectedEvents \in log'

C28_ReturnedWithoutRead ==
    /\ pc' = pc
    /\ sigPending' = sigPending
    /\ calls' = calls
    /\ proc' = proc

C28_Drains(t) ==
    /\ pc'[t].at = "drain"
    /\ pc'[t].fd = Context(t).fd
    /\ sigPending' = sigPending
    /\ calls' = calls
    /\ proc' = proc

C28_Step ==
    \A events \in EventSets :
        events # {POLLIN} /\ OurSigHandlerCalled(Leader, events) =>
            /\ C28_Logged
            /\ IF POLLIN \in events THEN C28_Drains(Leader) ELSE C28_ReturnedWithoutRead

C28_UnexpectedEvents == [][C28_Step]_vars

\* Called without POLLIN while a signal was pending: logged, nothing read,
\* no handler called.
C28_Witness ==
    /\ proc = "running"
    /\ log = {UnexpectedEvents}
    /\ pc[Leader] = Idle
    /\ calls = <<>>
    /\ Present(Leader)
    /\ Readable(Leader, Context(Leader).fd)

(***************************************************************************)
(* C29.  A read of 0 bytes and a read that fails with EAGAIN end the drain *)
(* normally: OurSigHandler returns to the event loop.  A read that fails   *)
(* with EINTR is repeated: no handler is called and the loop goes on.      *)
(* None of the three ends the process.                                     *)
(***************************************************************************)
C29_Draining == proc = "running" /\ pc[Leader].at = "drain" /\ fdTable[pc[Leader].fd].open

C29_EndsNormally ==
    \A k \in {"zero", "EAGAIN"} :
        OurSigHandlerOn(Leader, ReadEnd(k)) =>
            /\ proc' = "running"
            /\ diag' = diag
            /\ pc'[Leader] = Idle
            /\ calls' = calls

\* The turn for EINTR can be taken, and every such turn leaves the
\* dispatcher where it was, in the loop.
C29_Retried ==
    C29_Draining =>
        /\ ENABLED OurSigHandlerOn(Leader, ReadEnd("EINTR"))
        /\ ~ENABLED (/\ OurSigHandlerOn(Leader, ReadEnd("EINTR"))
                     /\ ~(proc' = "running" /\ diag' = diag /\ pc' = pc /\ calls' = calls))

C29_TransientReadResults == []C29_Retried /\ [][C29_EndsNormally]_vars

\* A drain that read two records has ended and the process runs.
C29_Witness ==
    /\ proc = "running"
    /\ Present(Leader)
    /\ pc[Leader] = Idle
    /\ Len(calls) = MaxRaise

(***************************************************************************)
(* C30.  A read that fails with an error other than EAGAIN and EINTR ends  *)
(* the process in LE_FATAL: OurSigHandler does not return and no handler   *)
(* is called afterwards.                                                   *)
(***************************************************************************)
C30_ErrorIsFatal ==
    \A k \in {"EBADF", "EIO"} :
        OurSigHandlerOn(Leader, ReadEnd(k)) =>
            /\ proc' = "fatal"
            /\ diag'.msg = "Could not read from signal fd"
            /\ pc' = pc
            /\ calls' = calls

\* Nothing happens in a process that has ended.
C30_NothingAfterFatal == proc = "running"

\* The error is fatal whenever it may come.
C30_ErrorEndsProcess ==
    C29_Draining =>
        ~ENABLED (/\ OurSigHandlerOn(Leader, ReadEnd("EIO"))
                  /\ proc' = "running")

C30_ReadErrorTerminates ==
    []C30_ErrorEndsProcess /\ [][C30_ErrorIsFatal /\ C30_NothingAfterFatal]_vars

\* The read of an open descriptor failed after a record was handled.
C30_Witness ==
    /\ proc = "fatal"
    /\ diag.msg = "Could not read from signal fd"
    /\ pc[Leader].at = "drain"
    /\ fdTable[pc[Leader].fd].open
    /\ calls # <<>>

(***************************************************************************)
(* C31.  The handler of a record is looked up when the record is read, in  *)
(* the handler list as it is then: after a callback of a drain has cleared *)
(* or replaced the handler of a signal (its own or another one), a record  *)
(* of that signal read later in the same drain calls no handler when the   *)
(* handler was cleared, and the new handler when it was replaced.          *)
(***************************************************************************)
\* A callback's le_sig_SetEventHandler changes the list at once and leaves
\* the drain that called the callback in progress.
C31_CallbackUpdates ==
    pc[Leader].at = "handler" /\ Present(Leader) /\ proc' = "running"
    /\ MonitorObjPool' # MonitorObjPool =>
        \A s \in UserSigs, h \in AnyHandler :
            le_sig_SetEventHandler(Leader, s, h) =>
                /\ pc' = pc
                /\ IF h = "NULL" THEN HandlersOf(Leader, s)' = {}
                                 ELSE HandlersOf(Leader, s)' = {h}

\* The handler called for a record is the one the list holds for its signal
\* when the record is read; none is called when the list holds none.
C31_RoutedByCurrentList ==
    calls' # calls /\ Present(Leader) /\ pc[Leader].at = "drain" =>
        LET rec == calls'[Len(calls')]
        IN  /\ calls' = Append(calls, rec)
            /\ rec.thread = Leader
            /\ IF HandlersOf(Leader, rec.sigNum) = {}
               THEN rec.handler = "NULL" /\ pc' = pc
               ELSE /\ HandlersOf(Leader, rec.sigNum) = {rec.handler}
                    /\ pc'[Leader].at = "handler"
                    /\ pc'[Leader].fn = rec.handler
                    /\ pc'[Leader].sig = rec.sigNum

C31_LookupAtDrainTime == [][C31_CallbackUpdates /\ C31_RoutedByCurrentList]_vars

\* The callback of SIGUSR1 cleared the handler of SIGUSR2, and the record of
\* SIGUSR2 read next in the drain called no handler.
C31_Witness ==
    /\ proc = "running"
    /\ Present(Leader)
    /\ pc[Leader].at = "drain"
    /\ unlinked[SIGUSR2] = 1
    /\ calls = << [thread |-> Leader, sigNum |-> SIGUSR1, handler |-> "F1"],
                  [thread |-> Leader, sigNum |-> SIGUSR2, handler |-> "NULL"] >>

(***************************************************************************)
(* C32.  Between the operations a thread has an open signalfd exactly when *)
(* it has a context: the descriptor of a present context is open, and      *)
(* every open descriptor is the descriptor of a present context.           *)
(* (Violated: a second le_sig_DeleteAll of another thread closes the       *)
(* descriptor number of a present context.)                                *)
(***************************************************************************)
C32_ContextHasOpenFd ==
    \A t \in Threads :
        Present(t) => Context(t).fd \in Fds /\ fdTable[Context(t).fd].open

C32_OpenFdHasContext ==
    \A f \in Fds :
        fdTable[f].open => \E t \in Threads : Present(t) /\ Context(t).fd = f

C33_Matches(t) ==
    /\ Context(t).fd \in Fds
    /\ fdTable[Context(t).fd].open
    /\ fdTable[Context(t).fd].mask =
          {HandlerList(t)[i].sigNum : i \in DOMAIN HandlerList(t)}

\* signalfd is called with the descriptor of the thread's monitor object,
\* and fails for a descriptor that is not open.
C33_FailureIsFatal ==
    \A t \in Threads :
        (/\ SigMonKey[t] # NULL
         /\ MonitorObjPool[SigMonKey[t]].fd \in Fds
         /\ ~fdTable[MonitorObjPool[SigMonKey[t]].fd].open
         /\ MonitorObjPool' # MonitorObjPool) =>
            \A s \in UserSigs, h \in AnyHandler :
                le_sig_SetEventHandler(t, s, h) =>
                    /\ proc' = "fatal"
                    /\ diag' = [msg |-> "Could not set signal event handler", sig |-> s]
                    /\ fdTable' = fdTable
                    /\ fdMonitors' = fdMonitors

\* No call returns with a present context of the caller whose descriptor
\* does not match: neither a call that went through signalfd nor one that
\* returned before it.
C33_NoMismatchedReturn ==
    proc = "running" =>
        \A t \in Threads, s \in UserSigs, h \in AnyHandler :
            ~ENABLED (/\ le_sig_SetEventHandler(t, s, h)
                      /\ proc' = "running"
                      /\ Present(t)'
                      /\ ~C33_Matches(t)')

C34_CloseFailed == proc' = "fatal" /\ diag'.msg = "Could not close file descriptor"

C34_Step ==
    \A t \in Threads, c \in CloseResults :
        SigMonKey[t] # NULL /\ le_sig_DeleteAllOn(t, c) =>
            LET mon  == MonitorObjPool[SigMonKey[t]]
                fdOk == mon.fd \in Fds /\ fdTable[mon.fd].open
            IN  /\ fdOk => ~C34_CloseFailed
                /\ ~fdOk /\ diag'.msg # "Invalid fd monitor reference" =>
                      C34_CloseFailed /\ MonitorObjPool' = MonitorObjPool
                /\ MonitorObjPool' # MonitorObjPool =>
                      fdOk /\ ~fdTable'[mon.fd].open

C35_NoReservedEntry ==
    \A m \in MonIds :
        \A i \in DOMAIN MonitorObjPool[m].handlerObjList :
            MonitorObjPool[m].handlerObjList[i].sigNum \notin ReservedSet

C35_NoReservedCall ==
    /\ \A i \in DOMAIN calls : calls[i].sigNum \notin ReservedSet
    /\ \A t \in Threads : pc[t].at = "handler" => pc[t].sig \notin ReservedSet

C35_NoReservedDescriptor ==
    \A f \in Fds : fdTable[f].mask \cap ReservedSet = {}

C35_NoHandlerForReserved ==
    C35_NoReservedEntry /\ C35_NoReservedCall /\ C35_NoReservedDescriptor

\* A callback running in a drain asked for a handler of SIGBUS: the call was
\* rejected and the list holds the handlers of the two user signals only.
C35_Witness ==
    /\ proc = "fatal"
    /\ diag = [msg |-> "Signal event handler is not allowed", sig |-> SIGBUS]
    /\ pc[Leader].at = "handler"
    /\ Present(Leader)
    /\ HandlerSigs(Leader) = UserSigs

(***************************************************************************)
(* C36.  After every le_sig_SetEventHandler call that queues a handler     *)
(* object, replaces the handler of one or removes one, and returns, the    *)
(* signal set of the signalfd of the caller's monitor object is the set of *)
(* the signals of the handler objects in its list: the empty set when the  *)
(* last handler object was removed.                                        *)
(***************************************************************************)
C36_SetEqualsList(t) ==
    LET mon == MonitorObjPool'[SigMonKey'[t]]
    IN  /\ mon.fd \in Fds
        /\ fdTable'[mon.fd].open
        /\ fdTable'[mon.fd].mask =
              {mon.handlerObjList[i].sigNum : i \in DOMAIN mon.handlerObjList}

C36_Step ==
    proc' = "running" /\ MonitorObjPool' # MonitorObjPool =>
        \A t \in Threads, s \in UserSigs, h \in AnyHandler :
            le_sig_SetEventHandler(t, s, h) /\ SigMonKey'[t] # NULL =>
                C36_SetEqualsList(t)

C36_DescriptorSetEqualsList == [][C36_Step]_vars

\* The handlers of both signals were set and removed again: the list is
\* empty and so is the signal set of the descriptor, which is still open.
C36_Witness ==
    /\ proc = "running"
    /\ Present(Leader)
    /\ HandlerList(Leader) = <<>>
    /\ unlinked[SIGUSR1] = 1
    /\ unlinked[SIGUSR2] = 1
    /\ fdTable[Context(Leader).fd] = [open |-> TRUE, mask |-> {}]

(***************************************************************************)
(* C37.  Every handler object that is allocated is linked in the list of   *)
(* one monitor object: le_sig_SetEventHandler with a NULL handler releases *)
(* the handler object it unlinks, so that setting and clearing a handler   *)
(* again and again does not use up the pool.  (Violated: the object is     *)
(* unlinked and not released.)                                             *)
(***************************************************************************)
C37_AllocatedAreLinked == HandlerObjPool = Linked

C37_ClearReleases ==
    \A t \in Threads, s \in UserSigs :
        Registered(t, s) /\ le_sig_SetEventHandler(t, s, "NULL") /\ proc' = "running" =>
            HandlerObjPool' = HandlerObjPool - 1

C37_NoHandlerObjLeak == []C37_AllocatedAreLinked /\ [][C37_ClearReleases]_vars

\* The handler of SIGUSR1 was set, cleared and set again: two handler
\* objects are allocated for the one that is linked.
C37_Witness ==
    /\ proc = "running"
    /\ Present(Leader)
    /\ HandlerSigs(Leader) = {SIGUSR1}
    /\ Len(HandlerList(Leader)) = 1
    /\ unlinked[SIGUSR1] = 1
    /\ unlinked[SIGUSR2] = 0
    /\ HandlerObjPool = 2

(***************************************************************************)
(* C38.  After a callback of a drain has called le_sig_DeleteAll in its    *)
(* own thread, OurSigHandler does not read the closed descriptor, looks    *)
(* nothing up in the released monitor object, calls no further handler     *)
(* and does not end the process: it returns to the event loop.             *)
(* (Violated: the loop reads the closed descriptor and ends the process.)  *)
(***************************************************************************)
\* The drain goes on after a callback that released the context.
C38_AfterRelease ==
    /\ proc = "running"
    /\ pc[Leader].at = "drain"
    /\ Released(Leader)
    /\ ~fdTable[pc[Leader].fd].open

C38_Step ==
    C38_AfterRelease /\ OurSigHandler(Leader) =>
        /\ proc' = "running"
        /\ calls' = calls
        /\ pc'[Leader] = Idle

C38_NotEndedByDispatcher ==
    ~(proc = "fatal" /\ diag.msg = "Could not read from signal fd")

C38_DeleteAllInCallback == []C38_NotEndedByDispatcher /\ [][C38_Step]_vars

\* The callback of the first record called le_sig_DeleteAll and returned;
\* the next read of the loop failed on the closed descriptor.
C38_Witness ==
    /\ proc = "fatal"
    /\ diag.msg = "Could not read from signal fd"
    /\ Released(Leader)
    /\ pc[Leader].at = "drain"
    /\ ~fdTable[pc[Leader].fd].open
    /\ Len(calls) = 1
    /\ calls[1].handler # "NULL"

(***************************************************************************)
(* C39.  The assertion of OurSigHandler holds: whenever it has read a      *)
(* record, pthread_getspecific gives the thread a monitor object, because  *)
(* an fd monitor that calls OurSigHandler is created only by a             *)
(* le_sig_SetEventHandler call of the thread that has stored the object    *)
(* under the key before.                                                   *)
(***************************************************************************)
C39_KeyStored ==
    /\ \A r \in Refs :
          fdMonitors[r].state # "unused" => SigMonKey[fdMonitors[r].thread] # NULL
    /\ \A t \in Threads : pc[t].at # "idle" => SigMonKey[t] # NULL

C39_AssertNotFailed == diag.msg # "Assert Failed: monitorObjPtr != NULL"

C39_RecordFindsObject ==
    calls' # calls =>
        /\ SigMonKey[calls'[Len(calls')].thread] # NULL
        /\ proc' = "running"

C39_AssertionHolds ==
    [](C39_KeyStored /\ C39_AssertNotFailed) /\ [][C39_RecordFindsObject]_vars

\* Two records were read in one drain and routed to their handlers through
\* the monitor object of the thread.
C39_Witness ==
    /\ proc = "running"
    /\ SigMonKey[Leader] # NULL
    /\ Present(Leader)
    /\ pc[Leader].at = "handler"
    /\ Len(calls) = 2
    /\ \A i \in DOMAIN calls : calls[i].handler # "NULL" /\ calls[i].thread = Leader

====
